---------------------------- MODULE Spec2Model ----------------------------
(***************************************************************************)
(* Download orchestration of the TikTok downloader backend:                *)
(*   - VideoStream, the process-backed byte stream (tiktok_service.rs)     *)
(*   - TikTokService's single-item operations and the filename counter     *)
(*   - the batch pipelines (bulk and selective) and client disconnects     *)
(*   - archive delivery with its deferred deletion, error responses,       *)
(*     and format parsing on its own                                       *)
(*   - thumbnail resolution, upload dates and profile enumeration          *)
(*   - batch requests side by side, the rate limiter, the reCAPTCHA check  *)
(* The external tool (yt-dlp), the operating system and the HTTP consumer  *)
(* are the environment: their moves are nondeterministic actions.          *)
(***************************************************************************)
EXTENDS Integers, Sequences, FiniteSets, TLC

(***************************************************************************)
(* Bounds of the model.                                                    *)
(***************************************************************************)
\* bytes the subprocess writes to its standard output in one run
MaxBytes == 3
\* requests in flight at once
MaxInFlight == 2
\* filename allocations looked at one by one
MaxAllocs == 3
\* URLs in the selection of a downloadSelected request
MaxSelected == 3
\* batch requests that create an archive
MaxCreations == 2
\* delivery requests
MaxDeliveries == 2
\* formats in the list the tool reports for one video
MaxFormatsIn == 6
\* names TempDir::new can give to a temporary directory
MaxTempNames == 2
\* values Uuid::new_v4 can return
MaxSessionIds == 2
\* requests that reach the rate limiter
MaxRequests == 11
\* the last second of the clock, and the seconds between two readings of it
MaxClock == 60
ClockStep == 30

(***************************************************************************)
(* Program constants.                                                      *)
(***************************************************************************)
\* vec![0u8; 8192]: the size of one read of the pipe
BUFFER_SIZE == 8192
\* available_formats.truncate(5)
MAX_FORMATS == 5
\* 2^16: an AtomicU32 is kept as two 16-bit halves
HALF == 65536
\* Duration::from_secs(30): the delay of the deferred deletion
GRACE_DELAY_SECS == 30
\* RateLimiter::new(10, 60): max_requests and window_seconds
MAX_REQUESTS == 10
WINDOW_SECONDS == 60

VARIABLES
    \* ---- VideoStream { reader, child } and its subprocess ----
    child_proc,      \* the OS process: "running", "exited" or "killed"
    exit_status,     \* the status of a process that exited by itself (0 = success)
    child_done,      \* tokio's Child has reaped the process (try_wait saw the exit)
    kill_pending,    \* a SIGKILL was sent and is not delivered yet
    written,         \* bytes the process has written so far
    pipe,            \* unread bytes of the stdout pipe, oldest first
    pipe_open,       \* the write end of the pipe is open
    stream_state,    \* "live" or "dropped"
    poll_pc,         \* "idle", or "read": poll_next is between try_wait and poll_read
    last_item,       \* what the last completed poll_next returned
    out,             \* the chunks yielded to the consumer, in order
    \* ---- what happened so far (history) ----
    kill_calls,      \* calls of start_kill
    signals_sent,    \* kill signals sent to the process
    ended_clean,     \* a poll returned Ready(None) and no poll before it an error
    err_seen,        \* a poll returned Some(Err(_))
    fail_at_pull,    \* the last poll began with the process exited non-zero
    data_after_fail  \* a data chunk was yielded after try_wait saw the failure

streamVars == <<child_proc, exit_status, child_done, kill_pending, written, pipe,
                pipe_open, stream_state, poll_pc, last_item, out, kill_calls,
                signals_sent, ended_clean, err_seen, fail_at_pull, data_after_fail>>

VARIABLES
    \* ---- the serving process: handlers and TikTokService ----
    req,               \* the request served in each slot (a record, see IdleReq)
    DOWNLOAD_COUNTER,  \* static AtomicU32, as <<high half, low half>>
    alloc_log,         \* the values fetch_add returned so far, in order
    wrapped,           \* a fetch_add has wrapped the counter around
    downloads_exists,  \* the directory ./downloads exists
    temp_dirs,         \* slots whose service holds a TempDir on disk
    recaptcha_enabled  \* RECAPTCHA_SECRET_KEY is configured

svcVars == <<req, DOWNLOAD_COUNTER, alloc_log, wrapped, downloads_exists, temp_dirs,
             recaptcha_enabled>>

VARIABLES
    \* ---- one batch request (download_profile_zip or
    \*      download_selected_profile_videos) ----
    batch_pc,             \* "idle", "download_all", "download", "await_output",
                          \* "zip", "cleanup", "remove_dir", "respond", "done",
                          \* or "cancelled"
    batch_mode,           \* "none", "bulk" or "selected"
    profile_url,          \* request.profile_url
    selected_video_urls,  \* request.selected_video_urls
    index,                \* URLs the loop of download_selected_videos has gone through
    attempts,             \* how the invocation for each of them ended (history)
    batch_spawned,        \* subprocesses the request has spawned, in order
    service_temp_dir,     \* the TempDir of the request's service is on disk
    session_dir,          \* the session directory exists
    session_files,        \* the files in it
    video_files,          \* the paths collected by the scan
    zip_path,             \* the archive file in ./downloads, or NoZip
    zip_entries,          \* the entries written to it
    batch_result,         \* what download_selected_videos_as_zip returned
    downloads_running,    \* the URLs (by position) whose download subprocess runs
    removal_warnings      \* the removals that failed and were logged (history)

batchVars == <<batch_pc, batch_mode, profile_url, selected_video_urls, index, attempts,
               batch_spawned, service_temp_dir, session_dir, session_files,
               video_files, zip_path, zip_entries, batch_result, downloads_running,
               removal_warnings>>

VARIABLES
    \* ---- archives in ./downloads and their delivery (stream_profile_zip) ----
    present,            \* the paths at which a file exists
    awaiting_delivery,  \* paths returned by a batch request and not streamed since
    cleanup_tasks,      \* the spawned deletion tasks: <<[path, elapsed seconds]>>
    creations,          \* archives created so far
    ok_deliveries,      \* delivery requests that returned the streaming response
    failed_deliveries,  \* delivery requests that returned an error
    scheduled,          \* deletion tasks spawned so far
    streamed_paths,     \* the paths whose bytes were streamed
    scheduled_paths,    \* the paths given to a deletion task
    deleted_paths,      \* the paths a deletion task has removed
    deleted_early,      \* a deletion ran before its delay had elapsed
    truncations,        \* creations that found a file at their path and replaced it
    task_outcomes       \* how each finished deletion task ended (history)

archiveVars == <<present, awaiting_delivery, cleanup_tasks, creations, ok_deliveries,
                 failed_deliveries, scheduled, streamed_paths, scheduled_paths,
                 deleted_paths, deleted_early, truncations, task_outcomes>>

VARIABLES
    \* ---- one call of parse_available_formats ----
    info_formats,            \* its argument, an Option<Vec<YtDlpFormat>>
    available_formats,  \* the list it returned
    parsed              \* it has returned

formatVars == <<info_formats, available_formats, parsed>>

\* extract_best_thumbnail_url: the record's thumbnails array and legacy
\* thumbnail field, the URL resolved, and whether the call has been made
VARIABLES thumbnails, thumbnail, thumbnail_url, thumb_resolved

\* the upload date of convert_ytdlp_to_video_info: the record's upload_date,
\* the outcome for created_at, and whether the conversion has run
VARIABLES upload_date, created_at, converted

\* get_profile_video_list: what the flat listing and the alternative listing
\* of the tool print, and what each of two enumerations returned
VARIABLES flat_output, alt_output, listings

metaVars == <<thumbnails, thumbnail, thumbnail_url, thumb_resolved,
              upload_date, created_at, converted,
              flat_output, alt_output, listings>>

VARIABLES
    \* ---- batch requests in flight side by side ----
    sess,            \* each request: where it is, its directories, what it collected
    disk,            \* the files in the session directories
    archives         \* the archives in ./downloads: name, entries, who built it

sessVars == <<sess, disk, archives>>

VARIABLES
    \* ---- rate_limit_middleware ----
    clock,           \* SystemTime::now() in seconds
    admitted,        \* the requests passed on to next.run: client and time (history)
    rejected         \* the requests answered with 429: client and time (history)

rateVars == <<clock, admitted, rejected>>

\* one request at the start of its handler: the handler, its token, how far it
\* got, and what had been built or started on the way
VARIABLES gate

frontVars == <<sessVars, rateVars, gate>>

vars == <<streamVars, svcVars, batchVars, archiveVars, formatVars, metaVars, frontVars>>

\* what an action of one component leaves alone
otherThanStream == <<svcVars, batchVars, archiveVars, formatVars, metaVars, frontVars>>
otherThanSvc == <<streamVars, batchVars, archiveVars, formatVars, metaVars, frontVars>>
otherThanDownload == <<streamVars, req, DOWNLOAD_COUNTER, alloc_log, wrapped,
                       temp_dirs, recaptcha_enabled, archiveVars, formatVars,
                       metaVars, frontVars, batch_mode, removal_warnings>>
otherThanCleanup == <<streamVars, req, DOWNLOAD_COUNTER, alloc_log, wrapped,
                      temp_dirs, recaptcha_enabled, archiveVars, formatVars,
                      metaVars, frontVars, batch_mode, downloads_running>>
otherThanBatchBegin == <<streamVars, req, DOWNLOAD_COUNTER, alloc_log, wrapped,
                         temp_dirs, recaptcha_enabled, archiveVars, formatVars,
                         metaVars, frontVars, downloads_running, removal_warnings>>
otherThanBatch == <<otherThanBatchBegin, batch_mode>>
otherThanArchive == <<streamVars, svcVars, batchVars, formatVars, metaVars, frontVars>>
otherThanFormats == <<streamVars, svcVars, batchVars, archiveVars, metaVars, frontVars>>
otherThanMeta == <<streamVars, svcVars, batchVars, archiveVars, formatVars, frontVars>>
otherThanFront == <<streamVars, svcVars, batchVars, archiveVars, formatVars, metaVars>>

Min(a, b) == IF a < b THEN a ELSE b

(***************************************************************************)
(* VideoStream                                                             *)
(***************************************************************************)

\* The process has ended with a failure status of its own.
ProcFailed == child_proc = "exited" /\ exit_status # 0

\* child.try_wait(): the status, once the process has ended; the first call that
\* sees it reaps the process (FusedChild::Done).
TryWaitStatus ==
    IF child_proc = "running" THEN "none"
    ELSE IF child_proc = "exited" /\ exit_status = 0 THEN "success"
    ELSE "failure"

\* The state right after stream_video / stream_audio returned Ok((stream, filename)).
StreamStart ==
    /\ child_proc = "running"
    /\ exit_status = 0
    /\ child_done = FALSE
    /\ kill_pending = FALSE
    /\ written = 0
    /\ pipe = <<>>
    /\ pipe_open = TRUE
    /\ stream_state = "live"
    /\ poll_pc = "idle"
    /\ last_item = "none"
    /\ out = <<>>
    /\ kill_calls = 0
    /\ signals_sent = 0
    /\ ended_clean = FALSE
    /\ err_seen = FALSE
    /\ fail_at_pull = FALSE
    /\ data_after_fail = FALSE

\* ---- the subprocess and the operating system ----

\* The process writes one more byte to its standard output.
ProcWrite ==
    /\ child_proc = "running"
    /\ pipe_open
    /\ stream_state = "live"
    /\ written < MaxBytes
    /\ written' = written + 1
    /\ pipe' = Append(pipe, written + 1)
    /\ UNCHANGED <<otherThanStream, child_proc, exit_status, child_done, kill_pending, pipe_open,
                   stream_state, poll_pc, last_item, out, kill_calls, signals_sent,
                   ended_clean, err_seen, fail_at_pull, data_after_fail>>

\* The process closes its standard output and keeps running.
ProcCloseStdout ==
    /\ child_proc = "running"
    /\ pipe_open
    /\ pipe_open' = FALSE
    /\ UNCHANGED <<otherThanStream, child_proc, exit_status, child_done, kill_pending, written, pipe,
                   stream_state, poll_pc, last_item, out, kill_calls, signals_sent,
                   ended_clean, err_seen, fail_at_pull, data_after_fail>>

\* The process exits by itself with the given status; its pipe end closes.
ProcExit(status) ==
    /\ child_proc = "running"
    /\ child_proc' = "exited"
    /\ exit_status' = status
    /\ pipe_open' = FALSE
    /\ kill_pending' = FALSE
    /\ UNCHANGED <<otherThanStream, child_done, written, pipe, stream_state, poll_pc, last_item, out,
                   kill_calls, signals_sent, ended_clean, err_seen, fail_at_pull,
                   data_after_fail>>

\* The operating system delivers the SIGKILL.
KillDelivered ==
    /\ kill_pending
    /\ child_proc = "running"
    /\ child_proc' = "killed"
    /\ pipe_open' = FALSE
    /\ kill_pending' = FALSE
    /\ UNCHANGED <<otherThanStream, exit_status, child_done, written, pipe, stream_state, poll_pc,
                   last_item, out, kill_calls, signals_sent, ended_clean, err_seen,
                   fail_at_pull, data_after_fail>>

\* ---- poll_next ----

\* A variant of the first half of poll_next that lets buffered bytes go first.
PollTryWait_BufferedFirst ==
    /\ stream_state = "live"
    /\ poll_pc = "idle"
    /\ fail_at_pull' = ProcFailed
    /\ child_done' = (child_done \/ TryWaitStatus # "none")
    /\ IF TryWaitStatus = "failure" /\ pipe = <<>>
         THEN /\ last_item' = "err_proc"
              /\ err_seen' = TRUE
              /\ poll_pc' = "idle"
         ELSE /\ poll_pc' = "read"
              /\ UNCHANGED <<last_item, err_seen>>
    /\ UNCHANGED <<otherThanStream, child_proc, exit_status, kill_pending, written, pipe, pipe_open,
                   stream_state, out, kill_calls, signals_sent, ended_clean,
                   data_after_fail>>

\* poll_next, first half: `if let Ok(Some(exit_status)) = self.child.try_wait()`;
\* a failure status returns Some(Err("yt-dlp process failed")) at once.
PollTryWait ==
    /\ stream_state = "live"
    /\ poll_pc = "idle"
    /\ fail_at_pull' = ProcFailed
    /\ child_done' = (child_done \/ TryWaitStatus # "none")
    /\ IF TryWaitStatus = "failure"
         THEN /\ last_item' = "err_proc"
              /\ err_seen' = TRUE
              /\ poll_pc' = "idle"
         ELSE /\ poll_pc' = "read"
              /\ UNCHANGED <<last_item, err_seen>>
    /\ UNCHANGED <<otherThanStream, child_proc, exit_status, kill_pending, written, pipe, pipe_open,
                   stream_state, out, kill_calls, signals_sent, ended_clean,
                   data_after_fail>>

\* A read that empties the pipe whatever it returned.
AfterRead_Drained(p, n) == <<>>

\* what stays in the pipe when a read has taken its first n bytes
AfterRead(p, n) == SubSeq(p, n + 1, Len(p))

\* poll_next, second half: one poll_read into an 8192-byte buffer.
\*   bytes available         -> Some(Ok(chunk)), the chunk being what the read
\*                              filled: at least one byte, at most the buffer,
\*                              the rest staying in the pipe
\*   none, write end closed  -> None
\*   none, write end open    -> Pending
PollRead ==
    /\ poll_pc = "read"
    /\ poll_pc' = "idle"
    /\ IF pipe # <<>>
         THEN \E n \in 1 .. Min(Len(pipe), BUFFER_SIZE) :
              /\ out' = Append(out, SubSeq(pipe, 1, n))
              /\ pipe' = AfterRead(pipe, n)
              /\ last_item' = "data"
              /\ data_after_fail' = (data_after_fail \/ (child_done /\ ProcFailed))
              /\ UNCHANGED ended_clean
         ELSE /\ IF pipe_open
                   THEN last_item' = "pending" /\ UNCHANGED ended_clean
                   ELSE last_item' = "eof" /\ ended_clean' = (ended_clean \/ ~err_seen)
              /\ UNCHANGED <<out, pipe, data_after_fail>>
    /\ UNCHANGED <<otherThanStream, child_proc, exit_status, child_done, kill_pending, written,
                   pipe_open, stream_state, kill_calls, signals_sent, err_seen,
                   fail_at_pull>>

\* poll_next, second half, when poll_read fails: Some(Err(e)).
PollReadError ==
    /\ poll_pc = "read"
    /\ poll_pc' = "idle"
    /\ last_item' = "err_io"
    /\ err_seen' = TRUE
    /\ UNCHANGED <<otherThanStream, child_proc, exit_status, child_done, kill_pending, written, pipe,
                   pipe_open, stream_state, out, kill_calls, signals_sent,
                   ended_clean, fail_at_pull, data_after_fail>>

\* ---- Drop ----

\* A Drop that forgets the child.
DropStream_NoKill ==
    /\ stream_state = "live"
    /\ poll_pc = "idle"
    /\ stream_state' = "dropped"
    /\ UNCHANGED <<otherThanStream, child_proc, exit_status, child_done, kill_pending, written, pipe,
                   pipe_open, poll_pc, last_item, out, kill_calls, signals_sent,
                   ended_clean, err_seen, fail_at_pull, data_after_fail>>

\* impl Drop for VideoStream: self.child.start_kill(), its error only logged.
\* start_kill sends SIGKILL unless the child was already reaped by try_wait
\* (then it sends nothing). The consumer may drop the stream after any poll.
DropStream ==
    /\ stream_state = "live"
    /\ poll_pc = "idle"
    /\ stream_state' = "dropped"
    /\ kill_calls' = kill_calls + 1
    /\ IF child_done
         THEN UNCHANGED <<signals_sent, kill_pending>>
         ELSE /\ signals_sent' = signals_sent + 1
              /\ kill_pending' = (child_proc = "running")
    /\ UNCHANGED <<otherThanStream, child_proc, exit_status, child_done, written, pipe, pipe_open,
                   poll_pc, last_item, out, ended_clean, err_seen, fail_at_pull,
                   data_after_fail>>

(***************************************************************************)
(* Strings. A URL is a sequence of tokens; a token stands for the          *)
(* characters it spells, and the token classes below say which character   *)
(* classes of the validator's patterns it belongs to.                      *)
(***************************************************************************)
Schemes == {"https://", "http://"}
HostNames == {"tiktok.com", "vm.tiktok.com", "m.tiktok.com", "youtube.com"}
Digits == {"7"}                                     \* \d
Alnum == Digits \cup {"a", "video", "t", "v"}       \* [A-Za-z0-9]
UserChars == Alnum \cup {"_", ".", ".html", "www."} \* [A-Za-z0-9_.]
Tokens == Schemes \cup HostNames \cup UserChars \cup {"/", "@", "not-a-url"}
NotSlash == Tokens \ {"/"}                          \* [^/]

\* the token at position i, "" past the end
At(u, i) == IF i >= 1 /\ i <= Len(u) THEN u[i] ELSE ""

\* the first position at or after i whose token is not in class
RECURSIVE RunEnd(_, _, _)
RunEnd(u, i, class) ==
    IF i <= Len(u) /\ u[i] \in class THEN RunEnd(u, i + 1, class) ELSE i

\* Url::parse(url).is_ok(): an absolute URL with a scheme and a host
UrlParses(u) ==
    /\ At(u, 1) \in Schemes
    /\ \/ At(u, 2) \in HostNames
       \/ At(u, 2) = "www." /\ At(u, 3) \in HostNames

\* ^https?://(www\.)?tiktok\.com : the position after the match, 0 for no match
TikTokHostEnd(u) ==
    IF At(u, 1) \notin Schemes THEN 0
    ELSE IF At(u, 2) = "www." /\ At(u, 3) = "tiktok.com" THEN 4
    ELSE IF At(u, 2) = "tiktok.com" THEN 3
    ELSE 0

\* ^https?://(www\.)?tiktok\.com/@[^/]+/video/\d+
VideoPattern1(u) ==
    LET h == TikTokHostEnd(u)
        e == RunEnd(u, h + 2, NotSlash)
    IN  /\ h # 0
        /\ At(u, h) = "/" /\ At(u, h + 1) = "@"
        /\ e > h + 2
        /\ At(u, e) = "/" /\ At(u, e + 1) = "video" /\ At(u, e + 2) = "/"
        /\ At(u, e + 3) \in Digits

\* ^https?://vm\.tiktok\.com/[A-Za-z0-9]+/?
VideoPattern2(u) ==
    /\ At(u, 1) \in Schemes /\ At(u, 2) = "vm.tiktok.com"
    /\ At(u, 3) = "/" /\ At(u, 4) \in Alnum

\* ^https?://(www\.)?tiktok\.com/t/[A-Za-z0-9]+/?
VideoPattern3(u) ==
    LET h == TikTokHostEnd(u)
    IN  /\ h # 0
        /\ At(u, h) = "/" /\ At(u, h + 1) = "t" /\ At(u, h + 2) = "/"
        /\ At(u, h + 3) \in Alnum

\* ^https?://m\.tiktok\.com/v/\d+\.html
VideoPattern4(u) ==
    LET e == RunEnd(u, 6, Digits)
    IN  /\ At(u, 1) \in Schemes /\ At(u, 2) = "m.tiktok.com"
        /\ At(u, 3) = "/" /\ At(u, 4) = "v" /\ At(u, 5) = "/"
        /\ e > 6 /\ At(u, e) = ".html"

\* is_valid_tiktok_url: Url::parse succeeds and some pattern matches (is_match:
\* the patterns are anchored at the start only)
is_valid_tiktok_url(u) ==
    /\ UrlParses(u)
    /\ VideoPattern1(u) \/ VideoPattern2(u) \/ VideoPattern3(u) \/ VideoPattern4(u)

\* ^https?://(www\.)?tiktok\.com/@[A-Za-z0-9_.]+/?
ProfilePattern1(u) ==
    LET h == TikTokHostEnd(u)
    IN  /\ h # 0
        /\ At(u, h) = "/" /\ At(u, h + 1) = "@"
        /\ At(u, h + 2) \in UserChars

\* ^https?://(www\.)?tiktok\.com/@[A-Za-z0-9_.]+$
ProfilePattern2(u) ==
    LET h == TikTokHostEnd(u)
        e == RunEnd(u, h + 2, UserChars)
    IN  /\ h # 0
        /\ At(u, h) = "/" /\ At(u, h + 1) = "@"
        /\ e > h + 2 /\ e = Len(u) + 1

\* is_valid_tiktok_profile_url
is_valid_tiktok_profile_url(u) ==
    /\ UrlParses(u)
    /\ ProfilePattern1(u) \/ ProfilePattern2(u)

(***************************************************************************)
(* Formats                                                                 *)
(***************************************************************************)
\* Option<u32>::None for a height
NoHeight == -1
\* Option<Vec<YtDlpFormat>>: None, or Some(list)
NoFormats == [some |-> FALSE, list |-> <<>>]
SomeFormats(fs) == [some |-> TRUE, list |-> fs]

\* the filter of parse_available_formats: mp4, a height, a video codec, >= 240
FormatQualifies(f) ==
    /\ f.ext = "mp4" /\ f.height # NoHeight
    /\ f.vcodec # "none"
    /\ f.height >= 240

RECURSIVE FilterFormats(_)
FilterFormats(fs) ==
    IF fs = <<>> THEN <<>>
    ELSE LET f == Head(fs)
             o == [format_id |-> f.format_id, ext |-> f.ext, height |-> f.height]
         IN  IF FormatQualifies(f) THEN <<o>> \o FilterFormats(Tail(fs))
             ELSE FilterFormats(Tail(fs))

\* sort_by(|a, b| b.height.cmp(&a.height)): stable, descending
RECURSIVE InsertByHeight(_, _)
InsertByHeight(f, sorted) ==
    IF sorted = <<>> THEN <<f>>
    ELSE IF Head(sorted).height >= f.height
         THEN <<Head(sorted)>> \o InsertByHeight(f, Tail(sorted))
         ELSE <<f>> \o sorted

RECURSIVE SortByHeight(_)
SortByHeight(fs) ==
    IF fs = <<>> THEN <<>>
    ELSE InsertByHeight(fs[Len(fs)], SortByHeight(SubSeq(fs, 1, Len(fs) - 1)))

\* (no dedup_by)
DedupByHeight_Off(fs) == fs

\* dedup_by(|a, b| a.height == b.height): drops an element equal in height to
\* the one kept before it
RECURSIVE DedupByHeight(_)
DedupByHeight(fs) ==
    IF Len(fs) <= 1 THEN fs
    ELSE LET front == DedupByHeight(SubSeq(fs, 1, Len(fs) - 1))
             last == fs[Len(fs)]
         IN  IF front[Len(front)].height = last.height THEN front
             ELSE Append(front, last)

FallbackFormat == [format_id |-> "best", ext |-> "mp4", height |-> NoHeight]

\* parse_available_formats
parse_available_formats(formats) ==
    IF ~formats.some THEN <<>>
    ELSE LET kept == DedupByHeight(SortByHeight(FilterFormats(formats.list)))
             top == SubSeq(kept, 1, Min(Len(kept), MAX_FORMATS))
         IN  IF top = <<>> THEN <<FallbackFormat>> ELSE top

(***************************************************************************)
(* The serving process: handlers and TikTokService                         *)
(***************************************************************************)
Slots == 1 .. MaxInFlight

\* the value of an AtomicU32 as <<high 16 bits, low 16 bits>>
U32(hi, lo) == <<hi, lo>>
U32Less(a, b) == a[1] < b[1] \/ (a[1] = b[1] /\ a[2] < b[2])
U32Max == U32(HALF - 1, HALF - 1)

\* c + 1 in u32 arithmetic (wrapping)
U32Succ(c) ==
    IF c[2] + 1 < HALF THEN U32(c[1], c[2] + 1)
    ELSE IF c[1] + 1 < HALF THEN U32(c[1] + 1, 0)
    ELSE U32(0, 0)

\* c - 1, for c > 0
U32Pred(c) == IF c[2] > 0 THEN U32(c[1], c[2] - 1) ELSE U32(c[1] - 1, HALF - 1)

\* A fetch_add that stores nothing.
FetchAddStore_Lost(c) == c

\* DOWNLOAD_COUNTER.fetch_add(1, SeqCst): the value stored (the old one is returned)
FetchAddStore(c) == U32Succ(c)

IdleReq ==
    [op |-> "none", pc |-> "idle", url |-> <<>>, format_id |-> "",
     avail |-> <<>>, meta_fetched |-> FALSE, spawned |-> <<>>, result |-> "none",
     allocated |-> FALSE, fs_ops |-> 0, probed |-> <<>>]

\* ---- the external tool, as each call sees it ----

\* check_ytdlp_availability: which("yt-dlp"), then `yt-dlp --version`
ProbeOutcomes == {"ok", "missing", "spawn_error", "broken"}

\* A probe that reports the tool as working without running it.
check_ytdlp_availability_Skipped(probe) == [err |-> "none", spawned |-> <<>>]

check_ytdlp_availability(probe) ==
    [err |-> CASE probe = "ok" -> "none"
               [] probe = "missing" -> "DependencyUnavailable"
               [] probe = "spawn_error" -> "IoError"
               [] probe = "broken" -> "DependencyUnavailable",
     spawned |-> IF probe \in {"ok", "broken"} THEN <<"version">> ELSE <<>>]

\* formats of the tool's JSON record
Fmt(id, ext, height, vcodec) ==
    [format_id |-> id, ext |-> ext, height |-> height, vcodec |-> vcodec]

FormatSamples ==
    { NoFormats,
      SomeFormats(<<>>),
      SomeFormats(<<Fmt("f720", "mp4", 720, "h264"), Fmt("f1080", "mp4", 1080, "h264")>>),
      SomeFormats(<<Fmt("f720", "mp4", 720, "h264"), Fmt("g720", "mp4", 720, "h265"),
                    Fmt("audio", "mp4", NoHeight, "none"),
                    Fmt("w480", "webm", 480, "vp9")>>) }

\* extract_video_metadata: `yt-dlp --dump-json --no-download`
MetaOutcomes ==
    {[kind |-> k, formats |-> NoFormats] : k \in {"spawn_error", "exit_failure", "bad_json"}}
    \cup {[kind |-> "ok", formats |-> fs] : fs \in FormatSamples}

\* get_video_info(url) with the tool answering probe and meta:
\* validate, probe, extract_video_metadata, convert_ytdlp_to_video_info
get_video_info(url, probe, meta) ==
    LET chk == check_ytdlp_availability(probe)
        fail(e, sp) == [err |-> e, spawned |-> sp, avail |-> <<>>, fetched |-> FALSE]
    IN  IF ~is_valid_tiktok_url(url) THEN fail("InvalidInput", <<>>)
        ELSE IF chk.err # "none" THEN fail(chk.err, chk.spawned)
        ELSE IF meta.kind = "spawn_error" THEN fail("IoError", chk.spawned)
        ELSE IF meta.kind = "exit_failure"
             THEN fail("UpstreamProcessError", chk.spawned \o <<"dump_json">>)
        ELSE IF meta.kind = "bad_json"
             THEN fail("ParseError", chk.spawned \o <<"dump_json">>)
        ELSE [err |-> "none", spawned |-> chk.spawned \o <<"dump_json">>,
              avail |-> parse_available_formats(meta.formats), fetched |-> TRUE]

\* A format check that accepts every identifier.
FormatAdvertised_Any(avail, format_id) == TRUE

\* video_info.available_formats.iter().any(|f| f.format_id == format_id)
FormatAdvertised(avail, format_id) ==
    \E i \in 1 .. Len(avail) : avail[i].format_id = format_id

\* stream_video up to the format check: validate, probe, get_video_info, check
stream_video_checks(url, format_id, probe1, probe2, meta) ==
    LET chk == check_ytdlp_availability(probe1)
        info == get_video_info(url, probe2, meta)
        fail(e, sp, pr) == [err |-> e, spawned |-> sp, avail |-> <<>>, fetched |-> FALSE,
                            probed |-> pr]
    IN  IF ~is_valid_tiktok_url(url) THEN fail("InvalidInput", <<>>, <<>>)
        ELSE IF chk.err # "none" THEN fail(chk.err, chk.spawned, <<probe1>>)
        ELSE IF info.err # "none"
             THEN fail(info.err, chk.spawned \o info.spawned, <<probe1, probe2>>)
        ELSE [err |-> IF FormatAdvertised(info.avail, format_id)
                        THEN "none" ELSE "InvalidFormat",
              spawned |-> chk.spawned \o info.spawned,
              avail |-> info.avail, fetched |-> TRUE, probed |-> <<probe1, probe2>>]

\* stream_audio up to the counter: validate, probe
stream_audio_checks(url, probe) ==
    LET chk == check_ytdlp_availability(probe)
    IN  IF ~is_valid_tiktok_url(url)
          THEN [err |-> "InvalidInput", spawned |-> <<>>, probed |-> <<>>]
          ELSE [err |-> chk.err, spawned |-> chk.spawned, probed |-> <<probe>>]

\* get_profile_video_list / get_profile_video_list_alternative: what one listing
\* call of the tool gives
ListOutcomes == {"spawn_error", "exit_failure", "empty", "records"}

\* get_profile_info: validate, probe, username, flat listing, and the
\* alternative listing when the flat one recovered nothing
get_profile_info(url, probe, flat, alt) ==
    LET chk == check_ytdlp_availability(probe)
        res(e, sp) == [err |-> e, spawned |-> sp]
    IN  IF ~is_valid_tiktok_profile_url(url) THEN res("InvalidInput", <<>>)
        ELSE IF chk.err # "none" THEN chk
        ELSE IF flat = "spawn_error" THEN res("IoError", chk.spawned)
        ELSE IF flat = "exit_failure"
             THEN res("UpstreamProcessError", chk.spawned \o <<"flat_list">>)
        ELSE IF flat = "records" THEN res("none", chk.spawned \o <<"flat_list">>)
        ELSE IF alt = "spawn_error"
             THEN res("IoError", chk.spawned \o <<"flat_list">>)
        ELSE res("none", chk.spawned \o <<"flat_list", "full_list">>)

\* ---- handlers ----

\* verify_recaptcha_if_enabled: skipped when disabled; otherwise a token is
\* needed and Google must accept it
RecaptchaTokens == {"absent", "good", "bad"}

\* A check that lets a request without a token pass.
verify_recaptcha_if_enabled_NoTokenPasses(token) ==
    IF ~recaptcha_enabled THEN TRUE ELSE token # "bad"

verify_recaptcha_if_enabled(token) ==
    IF ~recaptcha_enabled THEN TRUE ELSE token = "good"

\* A handler starts on a request: reCAPTCHA, then TikTokService::new(), which
\* creates a TempDir, calls new_with_downloads_dir (a second TempDir, and
\* ./downloads when it does not exist) and drops the first TempDir on return.
BeginRequest(r, ops, urls, format_ids) ==
    /\ req[r].pc = "idle"
    /\ \E op \in ops, url \in urls, token \in RecaptchaTokens, tempdir_ok \in BOOLEAN :
        \E fid \in (IF op = "streamVideo" THEN format_ids ELSE {""}) :
         LET fresh == [IdleReq EXCEPT !.op = op, !.url = url, !.format_id = fid]
         IN  IF ~verify_recaptcha_if_enabled(token)
               THEN /\ req' = [req EXCEPT ![r] = [fresh EXCEPT !.pc = "done",
                                                               !.result = "BadRequest"]]
                    /\ UNCHANGED <<downloads_exists, temp_dirs>>
             ELSE IF ~tempdir_ok
               THEN /\ req' = [req EXCEPT ![r] = [fresh EXCEPT !.pc = "done",
                                                               !.result = "Internal"]]
                    /\ UNCHANGED <<downloads_exists, temp_dirs>>
               ELSE /\ req' = [req EXCEPT ![r] =
                                 [fresh EXCEPT !.pc = "service",
                                               !.fs_ops = 3 + (IF downloads_exists THEN 0 ELSE 1)]]
                    /\ downloads_exists' = TRUE
                    /\ temp_dirs' = temp_dirs \cup {r}
    /\ UNCHANGED <<otherThanSvc, DOWNLOAD_COUNTER, alloc_log, wrapped, recaptcha_enabled>>

\* the service call returned: remember its outcome, go on to the response
Respond(r, result, spawned) ==
    [req[r] EXCEPT !.pc = "respond", !.result = result,
                   !.spawned = req[r].spawned \o spawned]

\* handlers::get_video_info -> TikTokService::get_video_info
GetVideoInfo(r) ==
    /\ req[r].pc = "service" /\ req[r].op = "getVideoInfo"
    /\ \E probe \in ProbeOutcomes, meta \in MetaOutcomes :
         LET info == get_video_info(req[r].url, probe, meta)
         IN  req' = [req EXCEPT ![r] =
                       [Respond(r, IF info.err = "none" THEN "Ok" ELSE info.err,
                                info.spawned)
                          EXCEPT !.avail = info.avail, !.meta_fetched = info.fetched]]
    /\ UNCHANGED <<otherThanSvc, DOWNLOAD_COUNTER, alloc_log, wrapped, downloads_exists,
                   temp_dirs, recaptcha_enabled>>

\* handlers::get_profile_info -> TikTokService::get_profile_info
GetProfileInfo(r) ==
    /\ req[r].pc = "service" /\ req[r].op = "getProfileInfo"
    /\ \E probe \in ProbeOutcomes, flat \in ListOutcomes, alt \in ListOutcomes :
         LET info == get_profile_info(req[r].url, probe, flat, alt)
         IN  req' = [req EXCEPT ![r] =
                       Respond(r, IF info.err = "none" THEN "Ok" ELSE info.err,
                               info.spawned)]
    /\ UNCHANGED <<otherThanSvc, DOWNLOAD_COUNTER, alloc_log, wrapped, downloads_exists,
                   temp_dirs, recaptcha_enabled>>

\* stream_video, lines 266-283
StreamVideoChecks(r, probes, metas) ==
    /\ req[r].pc = "service" /\ req[r].op = "streamVideo"
    /\ \E probe1 \in probes, probe2 \in probes, meta \in metas :
         LET c == stream_video_checks(req[r].url, req[r].format_id, probe1, probe2, meta)
         IN  req' = [req EXCEPT ![r] =
                       IF c.err = "none"
                         THEN [req[r] EXCEPT !.pc = "counter", !.spawned = c.spawned,
                                             !.avail = c.avail, !.meta_fetched = TRUE,
                                             !.probed = c.probed]
                         ELSE [Respond(r, c.err, c.spawned)
                                 EXCEPT !.avail = c.avail, !.meta_fetched = c.fetched,
                                        !.probed = c.probed]]
    /\ UNCHANGED <<otherThanSvc, DOWNLOAD_COUNTER, alloc_log, wrapped, downloads_exists,
                   temp_dirs, recaptcha_enabled>>

\* stream_audio, lines 324-329
StreamAudioChecks(r, probes) ==
    /\ req[r].pc = "service" /\ req[r].op = "streamAudio"
    /\ \E probe \in probes :
         LET c == stream_audio_checks(req[r].url, probe)
         IN  req' = [req EXCEPT ![r] =
                       IF c.err = "none"
                         THEN [req[r] EXCEPT !.pc = "counter", !.spawned = c.spawned,
                                             !.probed = c.probed]
                         ELSE [Respond(r, c.err, c.spawned) EXCEPT !.probed = c.probed]]
    /\ UNCHANGED <<otherThanSvc, DOWNLOAD_COUNTER, alloc_log, wrapped, downloads_exists,
                   temp_dirs, recaptcha_enabled>>

\* let counter = DOWNLOAD_COUNTER.fetch_add(1, Ordering::SeqCst), lines 286 and 333
AllocateFilename(r) ==
    /\ req[r].pc = "counter"
    /\ Len(alloc_log) < MaxAllocs
    /\ req' = [req EXCEPT ![r] = [req[r] EXCEPT !.pc = "spawn", !.allocated = TRUE]]
    /\ alloc_log' = Append(alloc_log, DOWNLOAD_COUNTER)
    /\ DOWNLOAD_COUNTER' = FetchAddStore(DOWNLOAD_COUNTER)
    /\ wrapped' = (wrapped \/ DOWNLOAD_COUNTER = U32Max)
    /\ UNCHANGED <<otherThanSvc, downloads_exists, temp_dirs, recaptcha_enabled>>

\* cmd.spawn()?, child.stdout.take(), Ok((stream, filename)): lines 292-320, 339-365
SpawnExtraction(r) ==
    /\ req[r].pc = "spawn"
    /\ \E spawn_ok \in BOOLEAN :
         req' = [req EXCEPT ![r] =
                   IF spawn_ok THEN Respond(r, "Ok", <<"extract">>)
                   ELSE Respond(r, "IoError", <<>>)]
    /\ UNCHANGED <<otherThanSvc, DOWNLOAD_COUNTER, alloc_log, wrapped, downloads_exists,
                   temp_dirs, recaptcha_enabled>>

\* The handler returns its response (or the error); the service is dropped and
\* its TempDir removed. The body stream, if any, lives on without the service.
HandlerReturn(r) ==
    /\ req[r].pc = "respond"
    /\ req' = [req EXCEPT ![r] = [req[r] EXCEPT !.pc = "done",
                                                !.fs_ops = req[r].fs_ops + 1]]
    /\ temp_dirs' = temp_dirs \ {r}
    /\ UNCHANGED <<otherThanSvc, DOWNLOAD_COUNTER, alloc_log, wrapped, downloads_exists,
                   recaptcha_enabled>>

\* How a handler's error becomes an AppError: verify_recaptcha_if_enabled builds
\* BadRequest itself; every error of the service is an anyhow::Error, which `?`
\* (From<E> for AppError) and map_err turn into Internal.
AppErrorOf(result) ==
    IF result = "BadRequest" THEN "BadRequest" ELSE "Internal"

\* AppError::into_response: the status and the error type of the JSON body; the
\* message is the error's text
into_response(err, text) ==
    CASE err = "Internal" ->
           [status |-> 500, error_type |-> "internal_error", message |-> text]
      [] err = "BadRequest" ->
           [status |-> 400, error_type |-> "bad_request", message |-> text]
      [] err = "Unauthorized" ->
           [status |-> 401, error_type |-> "unauthorized", message |-> text]

\* the response a failed request gets
ErrorResponse(result) == into_response(AppErrorOf(result), result)

\* the slot is free for the next request
Retire(r) ==
    /\ req[r].pc = "done"
    /\ req' = [req EXCEPT ![r] = IdleReq]
    /\ UNCHANGED <<otherThanSvc, DOWNLOAD_COUNTER, alloc_log, wrapped, downloads_exists,
                   temp_dirs, recaptcha_enabled>>

\* A long run of stream requests served to completion, each with one fetch_add:
\* the last of them took the value 2^32 - 2 and left the counter at 2^32 - 1.
ServedMany ==
    /\ DOWNLOAD_COUNTER[1] = 0
    /\ DOWNLOAD_COUNTER' = U32Max
    /\ alloc_log' = <<U32Pred(DOWNLOAD_COUNTER')>>
    /\ UNCHANGED <<otherThanSvc, req, wrapped, downloads_exists, temp_dirs,
                   recaptcha_enabled>>

\* ---- requests the model makes ----
VideoUrl == <<"https://", "www.", "tiktok.com", "/", "@", "a", "/", "video", "/", "7">>
ShortUrl == <<"https://", "vm.tiktok.com", "/", "a", "/">>
ProfileUrl == <<"https://", "www.", "tiktok.com", "/", "@", "a">>
ProfileSlashUrl == <<"http://", "tiktok.com", "/", "@", "a", ".", "a", "/">>
OffPlatformUrl == <<"https://", "youtube.com", "/", "@", "a">>
NotAUrl == <<"not-a-url">>
NoUserUrl == <<"https://", "www.", "tiktok.com", "/", "@">>
NoAtUrl == <<"https://", "tiktok.com", "/", "a">>
UrlSamples == {VideoUrl, ShortUrl, ProfileUrl, ProfileSlashUrl, OffPlatformUrl,
               NotAUrl, NoUserUrl, NoAtUrl}
FormatIds == {"f720", "f1080", "g720", "best", "w480"}
ServiceOps == {"getVideoInfo", "streamVideo", "streamAudio", "getProfileInfo"}
StreamOps == {"streamVideo", "streamAudio"}

\* the serving process after startup; ./downloads exists unless TEMP_DIR names
\* another directory
SvcStart ==
    /\ req = [r \in Slots |-> IdleReq]
    /\ DOWNLOAD_COUNTER = U32(0, 1)
    /\ alloc_log = <<>>
    /\ wrapped = FALSE
    /\ downloads_exists \in BOOLEAN
    /\ temp_dirs = {}
    /\ recaptcha_enabled \in BOOLEAN

\* no request is looked at
SvcQuiet ==
    /\ req = [r \in Slots |-> IdleReq]
    /\ DOWNLOAD_COUNTER = U32(0, 1)
    /\ alloc_log = <<>>
    /\ wrapped = FALSE
    /\ downloads_exists = TRUE
    /\ temp_dirs = {}
    /\ recaptcha_enabled = FALSE

\* no stream is looked at
StreamAbsent ==
    /\ child_proc = "none"
    /\ exit_status = 0
    /\ child_done = FALSE
    /\ kill_pending = FALSE
    /\ written = 0
    /\ pipe = <<>>
    /\ pipe_open = FALSE
    /\ stream_state = "none"
    /\ poll_pc = "idle"
    /\ last_item = "none"
    /\ out = <<>>
    /\ kill_calls = 0
    /\ signals_sent = 0
    /\ ended_clean = FALSE
    /\ err_seen = FALSE
    /\ fail_at_pull = FALSE
    /\ data_after_fail = FALSE

\* no downloadSelected request is looked at
NoZip == [username |-> <<>>, count |-> 0]
BatchAbsent ==
    /\ batch_pc = "idle"
    /\ batch_mode = "none"
    /\ profile_url = <<>>
    /\ selected_video_urls = <<>>
    /\ index = 0
    /\ attempts = <<>>
    /\ batch_spawned = <<>>
    /\ service_temp_dir = FALSE
    /\ session_dir = FALSE
    /\ session_files = {}
    /\ video_files = {}
    /\ zip_path = NoZip
    /\ zip_entries = {}
    /\ batch_result = "none"
    /\ downloads_running = {}
    /\ removal_warnings = {}

\* a file of the host outside ./downloads, and no archive yet
OutsidePath == "/etc/passwd"
ArchiveStart ==
    /\ present = {OutsidePath}
    /\ awaiting_delivery = {}
    /\ cleanup_tasks = <<>>
    /\ creations = 0
    /\ ok_deliveries = 0
    /\ failed_deliveries = 0
    /\ scheduled = 0
    /\ streamed_paths = {}
    /\ scheduled_paths = {}
    /\ deleted_paths = {}
    /\ deleted_early = FALSE
    /\ truncations = 0
    /\ task_outcomes = <<>>

\* no call of parse_available_formats is looked at
FormatsAbsent ==
    /\ info_formats = [some |-> FALSE, list |-> <<>>]
    /\ available_formats = <<>>
    /\ parsed = FALSE

\* no thumbnail resolution, date conversion or enumeration is looked at
MetaAbsent ==
    /\ thumbnails = [some |-> FALSE, list |-> <<>>]
    /\ thumbnail = [some |-> FALSE, url |-> ""]
    /\ thumbnail_url = [some |-> FALSE, url |-> "", panicked |-> FALSE]
    /\ thumb_resolved = FALSE
    /\ upload_date = [some |-> FALSE, chars |-> <<>>]
    /\ created_at = [kind |-> "none"]
    /\ converted = FALSE
    /\ flat_output = [status |-> "none", lines |-> <<>>]
    /\ alt_output = [status |-> "none", lines |-> <<>>]
    /\ listings = <<[done |-> FALSE], [done |-> FALSE]>>

\* a batch request that has not arrived
IdleSess == [pc |-> "idle", mode |-> "none", username |-> "", temp_dir |-> 0,
             session_id |-> 0, video_files |-> {}, zip_name |-> <<>>, result |-> "none"]

\* no concurrent batch requests are looked at
SessAbsent ==
    /\ sess = <<IdleSess, IdleSess>>
    /\ disk = {}
    /\ archives = {}

\* no request has reached the rate limiter
RateAbsent ==
    /\ clock = 0
    /\ admitted = <<>>
    /\ rejected = <<>>

\* no handler has been entered
IdleGate == [pc |-> "idle", handler |-> "none", token |-> "absent", result |-> "none",
             service |-> FALSE, spawned |-> <<>>]
GateAbsent == gate = IdleGate

FrontAbsent == SessAbsent /\ RateAbsent /\ GateAbsent

InitStream == StreamStart /\ SvcQuiet /\ BatchAbsent /\ ArchiveStart /\ FormatsAbsent /\ MetaAbsent /\ FrontAbsent

NextStream ==
    \/ ProcWrite
    \/ ProcCloseStdout
    \/ \E status \in {0, 1} : ProcExit(status)
    \/ KillDelivered
    \/ PollTryWait
    \/ PollRead
    \/ PollReadError
    \/ DropStream

SpecStream == InitStream /\ [][NextStream]_vars

\* The operating system delivers a pending SIGKILL; nothing else is assumed to
\* make progress (the tool may hang, the consumer may stop pulling).
SpecStreamFair == SpecStream /\ WF_vars(KillDelivered)


\* one request at a time, every single-item operation
InitService == StreamAbsent /\ SvcStart /\ BatchAbsent /\ ArchiveStart /\ FormatsAbsent /\ MetaAbsent /\ FrontAbsent

NextService ==
    \/ BeginRequest(1, ServiceOps, UrlSamples, FormatIds)
    \/ GetVideoInfo(1)
    \/ GetProfileInfo(1)
    \/ StreamVideoChecks(1, ProbeOutcomes, MetaOutcomes)
    \/ StreamAudioChecks(1, ProbeOutcomes)
    \/ AllocateFilename(1)
    \/ SpawnExtraction(1)
    \/ HandlerReturn(1)
    \/ Retire(1)

SpecService == InitService /\ [][NextService]_vars

\* concurrent stream requests, which share the counter; the tool is installed
\* and answers the metadata call with two formats
TwoFormatsMeta ==
    [kind |-> "ok",
     formats |-> SomeFormats(<<Fmt("f720", "mp4", 720, "h264"),
                               Fmt("f1080", "mp4", 1080, "h264")>>)]

NextCounter ==
    \/ \E r \in Slots :
         \/ BeginRequest(r, StreamOps, {VideoUrl}, {"f720", "w480"})
         \/ StreamVideoChecks(r, {"ok"}, {TwoFormatsMeta})
         \/ StreamAudioChecks(r, {"ok"})
         \/ AllocateFilename(r)
         \/ SpawnExtraction(r)
         \/ HandlerReturn(r)
         \/ Retire(r)
    \/ ServedMany

InitCounter == StreamAbsent /\ SvcQuiet /\ BatchAbsent /\ ArchiveStart /\ FormatsAbsent /\ MetaAbsent /\ FrontAbsent

SpecCounter == InitCounter /\ [][NextCounter]_vars

(***************************************************************************)
(* downloadSelected: download_selected_profile_videos and                  *)
(* TikTokService::download_selected_videos_as_zip                          *)
(***************************************************************************)

\* extract_tiktok_username: the run of [A-Za-z0-9_.] after the first "@" that
\* has one; <<>> stands for None
extract_tiktok_username(u) ==
    IF ~is_valid_tiktok_profile_url(u) THEN <<>>
    ELSE LET starts == {i \in 1 .. Len(u) : u[i] = "@" /\ At(u, i + 1) \in UserChars}
         IN  IF starts = {} THEN <<>>
             ELSE LET i == CHOOSE k \in starts : \A m \in starts : k <= m
                  IN  SubSeq(u, i + 1, RunEnd(u, i + 1, UserChars) - 1)

\* the file the tool writes for a URL: %(uploader)s_%(title)s_%(id)s.%(ext)s
FileOf(url, ext) == [url |-> url, ext |-> ext]

\* the extensions the scan of the session directory collects
VideoExts == {"mp4", "webm", "mkv"}

\* How one `yt-dlp <url>` of the loop can end: it could not be run; it exited 0
\* with its mp4 written; it exited non-zero leaving nothing, a .part file, or
\* the mp4 it had written before a later step failed.
InvocationOutcomes == {"spawn_error", "exit_ok", "exit_fail", "exit_fail_part",
                       "exit_fail_file"}

FilesLeft(url, outcome) ==
    CASE outcome = "exit_ok" -> {FileOf(url, "mp4")}
      [] outcome = "exit_fail_part" -> {FileOf(url, "part")}
      [] outcome = "exit_fail_file" -> {FileOf(url, "mp4")}
      [] OTHER -> {}

\* the selections of at most n URLs out of urls
RECURSIVE Selections(_, _)
Selections(urls, n) ==
    IF n = 0 THEN {<<>>}
    ELSE LET shorter == Selections(urls, n - 1)
         IN  shorter \cup {Append(sel, u) : sel \in shorter, u \in urls}

\* download_selected_videos_as_zip returns, with "Ok" or with the error named:
\* "IoError" when a subprocess could not be run, "FsError" when an operation on
\* the host's filesystem failed
BatchReturns(result, spawned) ==
    /\ batch_pc' = "respond"
    /\ batch_result' = result
    /\ batch_spawned' = batch_spawned \o spawned

\* The handler starts: reCAPTCHA, TikTokService::new(), then the service call up
\* to the creation of the session directory inside the service's TempDir.
BatchBegin(profiles, urls) ==
    /\ batch_pc = "idle"
    /\ \E purl \in profiles, sel \in Selections(urls, MaxSelected),
          token \in RecaptchaTokens, tempdir_ok \in BOOLEAN,
          probe \in ProbeOutcomes, mkdir_ok \in BOOLEAN :
         LET chk == check_ytdlp_availability(probe)
         IN  /\ profile_url' = purl
             /\ selected_video_urls' = sel
             /\ IF ~verify_recaptcha_if_enabled(token)
                  THEN /\ batch_pc' = "done" /\ batch_result' = "BadRequest"
                       /\ UNCHANGED <<batch_spawned, service_temp_dir, session_dir,
                                      downloads_exists>>
                ELSE IF ~tempdir_ok
                  THEN /\ batch_pc' = "done" /\ batch_result' = "Internal"
                       /\ UNCHANGED <<batch_spawned, service_temp_dir, session_dir,
                                      downloads_exists>>
                ELSE /\ service_temp_dir' = TRUE
                     /\ downloads_exists' = TRUE
                     /\ IF ~is_valid_tiktok_profile_url(purl)
                          THEN BatchReturns("InvalidInput", <<>>) /\ UNCHANGED session_dir
                        ELSE IF sel = <<>>
                          THEN BatchReturns("NoSelection", <<>>) /\ UNCHANGED session_dir
                        ELSE IF chk.err # "none"
                          THEN BatchReturns(chk.err, chk.spawned) /\ UNCHANGED session_dir
                        ELSE IF extract_tiktok_username(purl) = <<>>
                          THEN BatchReturns("NoUsername", chk.spawned)
                               /\ UNCHANGED session_dir
                        ELSE IF ~mkdir_ok
                          THEN BatchReturns("FsError", chk.spawned) /\ UNCHANGED session_dir
                        ELSE /\ batch_pc' = "download"
                             /\ batch_spawned' = batch_spawned \o chk.spawned
                             /\ session_dir' = TRUE
                             /\ UNCHANGED batch_result
    /\ batch_mode' = "selected"
    /\ UNCHANGED <<otherThanBatchBegin, index, attempts, session_files, video_files,
                   zip_path, zip_entries>>

\* A loop that starts the next download without waiting for the one it
\* started.
DownloadSpawn_NoAwait ==
    /\ batch_pc = "download"
    /\ batch_mode = "selected"
    /\ index < Len(selected_video_urls)
    /\ attempts' = Append(attempts, "exit_ok")
    /\ index' = index + 1
    /\ batch_spawned' = Append(batch_spawned, "download")
    /\ downloads_running' = downloads_running \cup {index + 1}
    /\ session_files' = session_files \cup FilesLeft(selected_video_urls[index + 1], "exit_ok")
    /\ UNCHANGED <<otherThanDownload, downloads_exists, profile_url, selected_video_urls,
                   service_temp_dir, session_dir, video_files, zip_path, zip_entries,
                   batch_pc, batch_result>>

\* One turn of the loop of download_selected_videos, first half: the command
\* for the next URL is started and the loop suspends in `.output().await`;
\* when the tool cannot be run, `?` returns out of the function.
DownloadSpawn ==
    /\ batch_pc = "download"
    /\ batch_mode = "selected"
    /\ index < Len(selected_video_urls)
    /\ \E spawn_ok \in BOOLEAN :
         IF spawn_ok
           THEN /\ batch_pc' = "await_output"
                /\ batch_spawned' = Append(batch_spawned, "download")
                /\ downloads_running' = downloads_running \cup {index + 1}
                /\ UNCHANGED <<attempts, index, batch_result>>
           ELSE /\ attempts' = Append(attempts, "spawn_error")
                /\ index' = index + 1
                /\ BatchReturns("IoError", <<>>)
                /\ UNCHANGED downloads_running
    /\ UNCHANGED <<otherThanDownload, downloads_exists, profile_url, selected_video_urls,
                   service_temp_dir, session_dir, session_files, video_files, zip_path,
                   zip_entries>>

\* One turn of the loop, second half: the subprocess has exited and its output
\* is there; a non-zero exit is logged and the loop goes on.
DownloadOne ==
    /\ batch_pc = "await_output"
    /\ batch_mode = "selected"
    /\ \E outcome \in InvocationOutcomes \ {"spawn_error"} :
         LET url == selected_video_urls[index + 1]
         IN  /\ attempts' = Append(attempts, outcome)
             /\ index' = index + 1
             /\ session_files' = session_files \cup FilesLeft(url, outcome)
    /\ downloads_running' = downloads_running \ {index + 1}
    /\ batch_pc' = "download"
    /\ UNCHANGED <<otherThanDownload, downloads_exists, profile_url, selected_video_urls,
                   service_temp_dir, session_dir, video_files, zip_path, zip_entries,
                   batch_spawned, batch_result>>

\* A subprocess whose request was dropped while it ran (the Command has no
\* kill_on_drop) comes to its end on its own.
OrphanExits ==
    /\ batch_pc = "cancelled"
    /\ downloads_running # {}
    /\ downloads_running' = {}
    /\ UNCHANGED <<otherThanDownload, downloads_exists, profile_url, selected_video_urls,
                   service_temp_dir, session_dir, session_files, video_files, zip_path,
                   zip_entries, index, attempts, batch_spawned, batch_pc, batch_result>>

\* After the loop: read_dir of the session directory, keeping the regular files
\* with a video extension; an empty result is an error.
CollectFiles ==
    /\ batch_pc = "download"
    /\ batch_mode = "selected"
    /\ index = Len(selected_video_urls)
    /\ \E read_ok \in BOOLEAN :
         LET found == {f \in session_files : f.ext \in VideoExts}
         IN  IF ~read_ok
               THEN BatchReturns("FsError", <<>>) /\ UNCHANGED video_files
             ELSE IF found = {}
               THEN BatchReturns("NoVideosDownloaded", <<>>) /\ video_files' = found
             ELSE /\ batch_pc' = "zip"
                  /\ video_files' = found
                  /\ UNCHANGED <<batch_result, batch_spawned>>
    /\ UNCHANGED <<otherThanBatch, downloads_exists, profile_url, selected_video_urls,
                   index, attempts, service_temp_dir, session_dir, session_files,
                   zip_path, zip_entries>>

\* create_zip_archive into ./downloads/tiktok_selected_<username>_<n>_videos.zip,
\* or ./downloads/tiktok_profile_<username>.zip in bulk mode (count 0 here):
\* File::create may fail; a later write may fail and leave the file behind.
CreateZip ==
    /\ batch_pc = "zip"
    /\ \E create_ok \in BOOLEAN, written_ok \in SUBSET video_files :
         LET path == [username |-> extract_tiktok_username(profile_url),
                      count |-> IF batch_mode = "bulk" THEN 0
                                ELSE Cardinality(video_files)]
         IN  IF ~create_ok
               THEN /\ BatchReturns("FsError", <<>>)
                    /\ UNCHANGED <<zip_path, zip_entries>>
             ELSE /\ zip_path' = path
                  /\ zip_entries' = written_ok
                  /\ IF written_ok = video_files
                       THEN batch_pc' = "cleanup" /\ UNCHANGED <<batch_result, batch_spawned>>
                       ELSE BatchReturns("FsError", <<>>)
    /\ UNCHANGED <<otherThanBatch, downloads_exists, profile_url, selected_video_urls,
                   index, attempts, service_temp_dir, session_dir, session_files,
                   video_files>>

\* the session directory, as an entry of removal_warnings
SessionDirEntry == [url |-> <<>>, ext |-> "session_dir"]

\* A cleanup that deletes the inputs while the archive is still to be built.
CleanupVideoFiles_Early ==
    /\ batch_pc = "zip"
    /\ session_files' = session_files \ video_files
    /\ UNCHANGED <<otherThanCleanup, downloads_exists, profile_url, selected_video_urls,
                   index, attempts, service_temp_dir, session_dir, video_files, zip_path,
                   zip_entries, batch_pc, batch_result, batch_spawned, removal_warnings>>

\* cleanup_video_files: remove_file for each collected file; a failure is
\* logged and the loop goes on; the function returns Ok(()) in every case.
CleanupVideoFiles ==
    /\ batch_pc = "cleanup"
    /\ \E removed \in SUBSET video_files :
         /\ session_files' = session_files \ removed
         /\ removal_warnings' = removal_warnings \cup (video_files \ removed)
    /\ batch_pc' = "remove_dir"
    /\ UNCHANGED <<otherThanCleanup, downloads_exists, profile_url, selected_video_urls,
                   index, attempts, service_temp_dir, session_dir, video_files, zip_path,
                   zip_entries, batch_result, batch_spawned>>

\* A removal of the session directory whose failure is returned with `?`.
RemoveSessionDir_Fatal ==
    /\ batch_pc = "remove_dir"
    /\ \E rmdir_ok \in BOOLEAN :
         IF rmdir_ok
           THEN /\ session_files' = {} /\ session_dir' = FALSE
                /\ UNCHANGED removal_warnings
                /\ BatchReturns("Ok", <<>>)
           ELSE /\ removal_warnings' = removal_warnings \cup {SessionDirEntry}
                /\ UNCHANGED <<session_files, session_dir>>
                /\ BatchReturns("FsError", <<>>)
    /\ UNCHANGED <<otherThanCleanup, downloads_exists, profile_url, selected_video_urls,
                   index, attempts, service_temp_dir, video_files, zip_path,
                   zip_entries>>

\* fs::remove_dir_all(&session_dir).await.unwrap_or_else(|e| warn!(..)), then
\* Ok((zip_path, zip_filename, zip_size))
RemoveSessionDir ==
    /\ batch_pc = "remove_dir"
    /\ \E rmdir_ok \in BOOLEAN :
         IF rmdir_ok
           THEN /\ session_files' = {} /\ session_dir' = FALSE
                /\ UNCHANGED removal_warnings
           ELSE /\ removal_warnings' = removal_warnings \cup {SessionDirEntry}
                /\ UNCHANGED <<session_files, session_dir>>
    /\ BatchReturns("Ok", <<>>)
    /\ UNCHANGED <<otherThanCleanup, downloads_exists, profile_url, selected_video_urls,
                   index, attempts, service_temp_dir, video_files, zip_path,
                   zip_entries>>

\* (a handler that returned without the service's TempDir being removed)
BatchHandlerReturn_KeepsTemp ==
    /\ batch_pc = "respond"
    /\ batch_pc' = "done"
    /\ UNCHANGED <<otherThanBatch, downloads_exists, profile_url, selected_video_urls,
                   index, attempts, batch_spawned, video_files, zip_path, zip_entries,
                   batch_result, service_temp_dir, session_dir, session_files>>

\* The handler returns; the service is dropped, and with it its TempDir and
\* whatever is left inside.
BatchHandlerReturn ==
    /\ batch_pc = "respond"
    /\ batch_pc' = "done"
    /\ service_temp_dir' = FALSE
    /\ session_dir' = FALSE
    /\ session_files' = {}
    /\ UNCHANGED <<otherThanBatch, downloads_exists, profile_url, selected_video_urls,
                   index, attempts, batch_spawned, video_files, zip_path, zip_entries,
                   batch_result>>

\* ---- downloadAll: download_profile_zip and download_profile_as_zip ----

\* The handler of a bulk request starts: reCAPTCHA, TikTokService::new(), then
\* the service call up to the creation of the session directory.
BulkBegin(profiles) ==
    /\ batch_pc = "idle"
    /\ \E purl \in profiles, token \in RecaptchaTokens, tempdir_ok \in BOOLEAN,
          probe \in ProbeOutcomes, mkdir_ok \in BOOLEAN :
         LET chk == check_ytdlp_availability(probe)
         IN  /\ profile_url' = purl
             /\ IF ~verify_recaptcha_if_enabled(token)
                  THEN /\ batch_pc' = "done" /\ batch_result' = "BadRequest"
                       /\ UNCHANGED <<batch_spawned, service_temp_dir, session_dir,
                                      downloads_exists>>
                ELSE IF ~tempdir_ok
                  THEN /\ batch_pc' = "done" /\ batch_result' = "Internal"
                       /\ UNCHANGED <<batch_spawned, service_temp_dir, session_dir,
                                      downloads_exists>>
                ELSE /\ service_temp_dir' = TRUE
                     /\ downloads_exists' = TRUE
                     /\ IF ~is_valid_tiktok_profile_url(purl)
                          THEN BatchReturns("InvalidInput", <<>>) /\ UNCHANGED session_dir
                        ELSE IF chk.err # "none"
                          THEN BatchReturns(chk.err, chk.spawned) /\ UNCHANGED session_dir
                        ELSE IF extract_tiktok_username(purl) = <<>>
                          THEN BatchReturns("NoUsername", chk.spawned)
                               /\ UNCHANGED session_dir
                        ELSE IF ~mkdir_ok
                          THEN BatchReturns("FsError", chk.spawned) /\ UNCHANGED session_dir
                        ELSE /\ batch_pc' = "download_all"
                             /\ batch_spawned' = batch_spawned \o chk.spawned
                             /\ session_dir' = TRUE
                             /\ UNCHANGED batch_result
    /\ batch_mode' = "bulk"
    /\ UNCHANGED <<otherThanBatchBegin, selected_video_urls, index, attempts,
                   session_files, video_files, zip_path, zip_entries>>

\* How the single `yt-dlp <profile>` of bulk mode can end
BulkOutcomes == {"all_spawn_error", "all_exit_ok", "all_exit_fail"}

\* `if !output.status.success()` of download_all_profile_videos
BulkExitFails_Never(outcome) == FALSE

BulkExitFails(outcome) == outcome = "all_exit_fail"

\* download_all_profile_videos and the check of its result: one invocation for
\* the whole profile, which has written the videos in `wrote` when it exits; a
\* non-zero exit is an error whatever was written; otherwise the session
\* directory is scanned, and an empty scan is an error.
DownloadAll(videos) ==
    /\ batch_pc = "download_all"
    /\ \E outcome \in BulkOutcomes, wrote \in SUBSET videos, read_ok \in BOOLEAN :
         LET files == {FileOf(u, "mp4") : u \in wrote}
             found == {f \in files : f.ext \in VideoExts}
         IN  /\ attempts' = Append(attempts, outcome)
             /\ IF outcome = "all_spawn_error"
                  THEN /\ BatchReturns("IoError", <<>>)
                       /\ UNCHANGED <<session_files, video_files>>
                ELSE IF BulkExitFails(outcome)
                  THEN /\ BatchReturns("BatchDownloadFailed", <<"download">>)
                       /\ session_files' = files
                       /\ UNCHANGED video_files
                ELSE IF ~read_ok
                  THEN /\ BatchReturns("FsError", <<"download">>)
                       /\ session_files' = files
                       /\ UNCHANGED video_files
                ELSE IF found = {}
                  THEN /\ BatchReturns("NoVideosDownloaded", <<"download">>)
                       /\ session_files' = files
                       /\ video_files' = found
                ELSE /\ batch_pc' = "zip"
                     /\ batch_spawned' = Append(batch_spawned, "download")
                     /\ session_files' = files
                     /\ video_files' = found
                     /\ UNCHANGED batch_result
    /\ UNCHANGED <<otherThanBatch, downloads_exists, profile_url, selected_video_urls,
                   index, service_temp_dir, session_dir, zip_path, zip_entries>>

\* The client closes the connection while the handler is suspended in the
\* pipeline (the handler awaits the pipeline inline, main.rs serves it with
\* axum::serve): the handler's future is dropped where it stands, and with it
\* the service and its TempDir. Nothing after the suspension point runs.
ClientDisconnect ==
    /\ batch_pc \in {"download_all", "download", "await_output", "zip", "cleanup",
                    "remove_dir"}
    /\ batch_pc' = "cancelled"
    /\ service_temp_dir' = FALSE
    /\ session_dir' = FALSE
    /\ session_files' = {}
    /\ UNCHANGED <<otherThanBatch, downloads_exists, profile_url, selected_video_urls,
                   index, attempts, batch_spawned, video_files, zip_path, zip_entries,
                   batch_result>>

SecondVideoUrl == <<"https://", "www.", "tiktok.com", "/", "@", "a", "/", "video", "/", "8">>
SelectedSamples == {VideoUrl, SecondVideoUrl}
\* what a client may put into selected_video_urls: any strings
SelectableSamples == SelectedSamples \cup {OffPlatformUrl}
ProfileSamples == {ProfileUrl, VideoUrl, NotAUrl}

InitBatch == StreamAbsent /\ SvcStart /\ BatchAbsent /\ ArchiveStart /\ FormatsAbsent /\ MetaAbsent /\ FrontAbsent

NextBatch ==
    \/ BatchBegin(ProfileSamples, SelectableSamples)
    \/ BulkBegin(ProfileSamples)
    \/ DownloadAll(SelectedSamples)
    \/ DownloadSpawn
    \/ DownloadOne
    \/ OrphanExits
    \/ CollectFiles
    \/ CreateZip
    \/ CleanupVideoFiles
    \/ RemoveSessionDir
    \/ BatchHandlerReturn
    \/ ClientDisconnect

SpecBatch == InitBatch /\ [][NextBatch]_vars

(***************************************************************************)
(* Archive delivery: stream_profile_zip and its deferred deletion          *)
(***************************************************************************)

\* the archive of a profile: downloads_dir.join("tiktok_profile_a.zip")
ArchivePath == "./downloads/tiktok_profile_a.zip"
DownloadsPaths == {ArchivePath}
\* what a client can send as zip_path
ZipPathParams == {ArchivePath, OutsidePath}

\* A batch request for the profile succeeds: create_zip_archive opens the
\* profile's archive path with std::fs::File::create, which creates the file
\* or, when one is there, truncates it; the handler returns the path to its
\* client.
CreateArchive ==
    /\ creations < MaxCreations
    /\ creations' = creations + 1
    /\ present' = present \cup {ArchivePath}
    /\ truncations' = IF ArchivePath \in present THEN truncations + 1 ELSE truncations
    /\ awaiting_delivery' = awaiting_delivery \cup {ArchivePath}
    /\ UNCHANGED <<otherThanArchive, cleanup_tasks, ok_deliveries, failed_deliveries,
                   scheduled, streamed_paths, scheduled_paths, deleted_paths,
                   deleted_early, task_outcomes>>

\* stream_profile_zip(zip_path): BadRequest when nothing exists at the path, an
\* internal error when the file cannot be opened or the response not built;
\* otherwise the response streams the file and a task is spawned that will
\* delete the path later.
DeliverArchive ==
    /\ ok_deliveries + failed_deliveries < MaxDeliveries
    /\ \E requested \in ZipPathParams, open_ok \in BOOLEAN, built_ok \in BOOLEAN :
         IF requested \notin present \/ ~open_ok \/ ~built_ok
           THEN /\ failed_deliveries' = failed_deliveries + 1
                /\ UNCHANGED <<ok_deliveries, awaiting_delivery, cleanup_tasks, scheduled,
                               streamed_paths, scheduled_paths>>
           ELSE /\ ok_deliveries' = ok_deliveries + 1
                /\ streamed_paths' = streamed_paths \cup {requested}
                /\ awaiting_delivery' = awaiting_delivery \ {requested}
                /\ cleanup_tasks' = Append(cleanup_tasks, [path |-> requested, elapsed |-> 0])
                /\ scheduled' = scheduled + 1
                /\ scheduled_paths' = scheduled_paths \cup {requested}
                /\ UNCHANGED failed_deliveries
    /\ UNCHANGED <<otherThanArchive, present, creations, deleted_paths, deleted_early,
                   truncations, task_outcomes>>

\* one second passes for every sleeping task
Tick ==
    /\ \E i \in 1 .. Len(cleanup_tasks) : cleanup_tasks[i].elapsed < GRACE_DELAY_SECS
    /\ cleanup_tasks' =
         [i \in 1 .. Len(cleanup_tasks) |->
            [cleanup_tasks[i] EXCEPT !.elapsed = Min(@ + 1, GRACE_DELAY_SECS)]]
    /\ UNCHANGED <<otherThanArchive, present, awaiting_delivery, creations, ok_deliveries,
                   failed_deliveries, scheduled, streamed_paths, scheduled_paths,
                   deleted_paths, deleted_early, truncations, task_outcomes>>

\* (a task that does not sleep)
SleepOver_AtOnce(task) == TRUE

\* tokio::time::sleep(30 s) of the task has returned
SleepOver(task) == task.elapsed >= GRACE_DELAY_SECS

RemoveAt(seq, i) == SubSeq(seq, 1, i - 1) \o SubSeq(seq, i + 1, Len(seq))

\* A removal whose error is not caught: the task panics.
CleanupOutcome_Unwrapped(service_ok, removes) ==
    IF ~service_ok THEN "skipped" ELSE IF removes THEN "deleted" ELSE "panicked"

\* How the task ends: `if let Ok(service) = TikTokService::new()` skips the
\* removal silently when the service cannot be built; cleanup_zip_file logs
\* the removal or, with warn!, its failure, and returns Ok(()).
CleanupOutcome(service_ok, removes) ==
    IF ~service_ok THEN "skipped" ELSE IF removes THEN "deleted" ELSE "logged"

\* The spawned task wakes up: TikTokService::new(), then
\* cleanup_zip_file_by_path -> remove_file(path). A failure of either is logged
\* only; the task ends in every case.
DeferredCleanup ==
    \E i \in 1 .. Len(cleanup_tasks), service_ok \in BOOLEAN, remove_ok \in BOOLEAN :
        LET task == cleanup_tasks[i]
            removes == service_ok /\ remove_ok /\ task.path \in present
        IN  /\ SleepOver(task)
            /\ cleanup_tasks' = RemoveAt(cleanup_tasks, i)
            /\ present' = IF removes THEN present \ {task.path} ELSE present
            /\ deleted_paths' = IF removes THEN deleted_paths \cup {task.path}
                                ELSE deleted_paths
            /\ deleted_early' = (deleted_early \/ task.elapsed < GRACE_DELAY_SECS)
            /\ task_outcomes' = Append(task_outcomes,
                                       [path |-> task.path, found |-> task.path \in present,
                                        outcome |-> CleanupOutcome(service_ok, removes)])
            /\ UNCHANGED <<otherThanArchive, awaiting_delivery, creations, ok_deliveries,
                           failed_deliveries, scheduled, streamed_paths,
                           scheduled_paths, truncations>>

InitArchive == StreamAbsent /\ SvcQuiet /\ BatchAbsent /\ ArchiveStart /\ FormatsAbsent /\ MetaAbsent /\ FrontAbsent

NextArchive ==
    \/ CreateArchive
    \/ DeliverArchive
    \/ Tick
    \/ DeferredCleanup

SpecArchive == InitArchive /\ [][NextArchive]_vars

(***************************************************************************)
(* Format parsing on its own: the lists the tool can report                *)
(***************************************************************************)

\* the entries a reported list is made of: six heights that qualify, a second
\* format of height 720, and entries the filter drops
FormatChoices ==
    { Fmt("f240", "mp4", 240, "h264"), Fmt("f360", "mp4", 360, "h264"),
      Fmt("f480", "mp4", 480, "h264"), Fmt("f720", "mp4", 720, "h264"),
      Fmt("f1080", "mp4", 1080, "h264"), Fmt("f1440", "mp4", 1440, "h264"),
      Fmt("g720", "mp4", 720, "h265"),
      Fmt("audio", "mp4", NoHeight, "none"), Fmt("w2160", "webm", 2160, "vp9"),
      Fmt("f144", "mp4", 144, "h264") }

\* the tool's record has a "formats" list, empty so far
ReportFormats ==
    /\ ~parsed /\ ~info_formats.some
    /\ info_formats' = SomeFormats(<<>>)
    /\ UNCHANGED <<otherThanFormats, available_formats, parsed>>

\* the list has one more entry (format ids are unique in a record)
ReportFormat ==
    /\ ~parsed /\ info_formats.some
    /\ Len(info_formats.list) < MaxFormatsIn
    /\ \E f \in FormatChoices :
         /\ \A i \in 1 .. Len(info_formats.list) : info_formats.list[i] # f
         /\ info_formats' = SomeFormats(Append(info_formats.list, f))
    /\ UNCHANGED <<otherThanFormats, available_formats, parsed>>

\* convert_ytdlp_to_video_info calls parse_available_formats(&info.formats)
ParseFormats ==
    /\ ~parsed
    /\ available_formats' = parse_available_formats(info_formats)
    /\ parsed' = TRUE
    /\ UNCHANGED <<otherThanFormats, info_formats>>

InitFormats == StreamAbsent /\ SvcQuiet /\ BatchAbsent /\ ArchiveStart /\ FormatsAbsent /\ MetaAbsent /\ FrontAbsent

NextFormats ==
    \/ ReportFormats
    \/ ReportFormat
    \/ ParseFormats

SpecFormats == InitFormats /\ [][NextFormats]_vars

(***************************************************************************)
(* Thumbnail resolution: extract_best_thumbnail_url(thumbnails, fallback)  *)
(***************************************************************************)

\* most entries of a thumbnails array the model looks at
MaxThumbs == 3

\* Option<u32>::None for a height or a width
NoDim == -1

\* Option<String> identifiers, a string being its characters
NoId == [some |-> FALSE, chars |-> <<>>]
SomeId(chars) == [some |-> TRUE, chars |-> chars]

\* YtDlpThumbnail { id, url, height, width }
Thumb(id, url, height, width) == [id |-> id, url |-> url, height |-> height, width |-> width]

\* str::contains: the needle occurs as a contiguous run of the characters
Contains(hay, needle) ==
    \E i \in 1 .. (Len(hay) - Len(needle) + 1) :
        SubSeq(hay, i, i + Len(needle) - 1) = needle

\* t.id.as_ref().map(|id| id.contains("cover")).unwrap_or(false)
IsCoverId(id) == id.some /\ Contains(id.chars, <<"c", "o", "v", "e", "r">>)

\* A search that finds no cover entry.
CoverThumbnail_None(list) == 0

\* thumbnails_array.iter().find(..): the index of the first entry whose id
\* contains "cover", 0 when there is none
CoverThumbnail(list) ==
    IF \E i \in 1 .. Len(list) : IsCoverId(list[i].id)
      THEN CHOOSE i \in 1 .. Len(list) :
             /\ IsCoverId(list[i].id)
             /\ \A j \in 1 .. (i - 1) : ~IsCoverId(list[j].id)
      ELSE 0

\* x * y for x, y < 2^16, as <<high 16 bits, low 16 bits>> (worked out on
\* 8-bit halves, so that no step leaves the integers of the checker)
Mul16(x, y) ==
    LET x1 == x \div 256  x0 == x % 256
        y1 == y \div 256  y0 == y % 256
        mid == x1 * y0 + x0 * y1
        low == x0 * y0 + (mid % 256) * 256
    IN  <<x1 * y1 + (mid \div 256) + (low \div HALF), low % HALF>>

\* the product of two u32 values (here below 2^31) in full: its four 16-bit
\* digits, the most significant first
Product(a, b) ==
    LET P00 == Mul16(a % HALF, b % HALF)
        P01 == Mul16(a % HALF, b \div HALF)
        P10 == Mul16(a \div HALF, b % HALF)
        P11 == Mul16(a \div HALF, b \div HALF)
        s1 == P00[1] + P01[2] + P10[2]
        s2 == P01[1] + P10[1] + P11[2] + (s1 \div HALF)
    IN  <<P11[1] + (s2 \div HALF), s2 % HALF, s1 % HALF, P00[2]>>

\* unwrap_or(0) of a height or a width
DimOrZero(d) == IF d = NoDim THEN 0 ELSE d

\* the area of an entry as a number, not as a u32
ExactArea(t) == Product(DimOrZero(t.height), DimOrZero(t.width))

\* the `*` of two u32 leaves u32: a build with overflow checks panics there
AreaOverflows(t) == ExactArea(t)[1] > 0 \/ ExactArea(t)[2] > 0

\* t.height.unwrap_or(0) * t.width.unwrap_or(0) in u32, as a build without
\* overflow checks computes it: the low 32 bits of the product
ThumbArea(t) == U32(ExactArea(t)[3], ExactArea(t)[4])

\* iter().max_by_key(..): the last of the entries with the largest key
BestThumbnail(list) ==
    CHOOSE i \in 1 .. Len(list) :
        /\ \A j \in 1 .. Len(list) : ~U32Less(ThumbArea(list[i]), ThumbArea(list[j]))
        /\ \A j \in (i + 1) .. Len(list) : U32Less(ThumbArea(list[j]), ThumbArea(list[i]))

extract_best_thumbnail_url(array, fallback) ==
    IF array.some /\ array.list # <<>>
      THEN IF CoverThumbnail(array.list) # 0
             THEN [some |-> TRUE, url |-> array.list[CoverThumbnail(array.list)].url]
             ELSE [some |-> TRUE, url |-> array.list[BestThumbnail(array.list)].url]
      ELSE fallback

\* entries a record of the tool may carry
ThumbChoices ==
    { Thumb(SomeId(<<"c", "o", "v", "e", "r">>), "cover.jpg", 100, 100),
      Thumb(SomeId(<<"o", "r", "i", "g", "i", "n", "_", "c", "o", "v", "e", "r">>),
            "origin_cover.jpg", NoDim, NoDim),
      Thumb(SomeId(<<"d", "y", "n", "a", "m", "i", "c">>), "dynamic.jpg", 720, 720),
      Thumb(SomeId(<<"c", "o", "v", "r">>), "covr.jpg", NoDim, 480),
      Thumb(NoId, "plain.jpg", 1080, 1920),
      Thumb(NoId, "huge.jpg", 65536, 65536) }

\* the record has a thumbnails array
ReportThumbnails ==
    /\ ~thumb_resolved /\ ~thumbnails.some
    /\ thumbnails' = [some |-> TRUE, list |-> <<>>]
    /\ UNCHANGED <<otherThanMeta, thumbnail, thumbnail_url, thumb_resolved,
                   upload_date, created_at, converted, flat_output, alt_output, listings>>

\* the array has one more entry
ReportThumbnail ==
    /\ ~thumb_resolved /\ thumbnails.some
    /\ Len(thumbnails.list) < MaxThumbs
    /\ \E t \in ThumbChoices :
         thumbnails' = [some |-> TRUE, list |-> Append(thumbnails.list, t)]
    /\ UNCHANGED <<otherThanMeta, thumbnail, thumbnail_url, thumb_resolved,
                   upload_date, created_at, converted, flat_output, alt_output, listings>>

\* the record has the legacy thumbnail field
ReportLegacyThumbnail ==
    /\ ~thumb_resolved /\ ~thumbnail.some
    /\ thumbnail' = [some |-> TRUE, url |-> "legacy.jpg"]
    /\ UNCHANGED <<otherThanMeta, thumbnails, thumbnail_url, thumb_resolved,
                   upload_date, created_at, converted, flat_output, alt_output, listings>>

\* max_by_key computes the key of every entry; it is reached when the array
\* is not empty and has no cover entry
MultiplyOverflows(array) ==
    /\ array.some /\ array.list # <<>>
    /\ CoverThumbnail(array.list) = 0
    /\ \E i \in 1 .. Len(array.list) : AreaOverflows(array.list[i])

\* what the call gave: the Option it returned, or a panic
Returned(o) == [some |-> o.some, url |-> o.url, panicked |-> FALSE]
Panicked == [some |-> FALSE, url |-> "", panicked |-> TRUE]

\* Self::extract_best_thumbnail_url(&entry.thumbnails, &entry.thumbnail), in
\* a build with overflow checks (the dev profile) or without (release)
ResolveThumbnail ==
    /\ ~thumb_resolved
    /\ \E overflow_checks \in BOOLEAN :
         thumbnail_url' = IF overflow_checks /\ MultiplyOverflows(thumbnails)
                            THEN Panicked
                            ELSE Returned(extract_best_thumbnail_url(thumbnails, thumbnail))
    /\ thumb_resolved' = TRUE
    /\ UNCHANGED <<otherThanMeta, thumbnails, thumbnail,
                   upload_date, created_at, converted, flat_output, alt_output, listings>>

InitThumbs == StreamAbsent /\ SvcQuiet /\ BatchAbsent /\ ArchiveStart /\ FormatsAbsent /\ MetaAbsent /\ FrontAbsent

NextThumbs ==
    \/ ReportThumbnails
    \/ ReportThumbnail
    \/ ReportLegacyThumbnail
    \/ ResolveThumbnail

SpecThumbs == InitThumbs /\ [][NextThumbs]_vars

(***************************************************************************)
(* The upload date in convert_ytdlp_to_video_info                          *)
(***************************************************************************)

\* A string is the sequence of its characters; "é" stands for a character
\* that takes two bytes in UTF-8, every other character here takes one.
DecimalDigits == {"0", "1", "2", "3", "4", "5", "6", "7", "8", "9"}

DigitValue(c) ==
    CASE c = "0" -> 0 [] c = "1" -> 1 [] c = "2" -> 2 [] c = "3" -> 3 [] c = "4" -> 4
      [] c = "5" -> 5 [] c = "6" -> 6 [] c = "7" -> 7 [] c = "8" -> 8 [] c = "9" -> 9

ByteWidth(c) == IF c = "é" THEN 2 ELSE 1

\* str::len: the length in bytes
RECURSIVE ByteLen(_)
ByteLen(chars) ==
    IF chars = <<>> THEN 0 ELSE ByteWidth(Head(chars)) + ByteLen(Tail(chars))

\* str::is_char_boundary
IsCharBoundary(chars, k) ==
    \E i \in 0 .. Len(chars) : ByteLen(SubSeq(chars, 1, i)) = k

\* the number of characters in front of the byte offset k, a boundary
CharsBefore(chars, k) ==
    CHOOSE i \in 0 .. Len(chars) : ByteLen(SubSeq(chars, 1, i)) = k

\* &s[a..b] for boundaries a <= b: the characters in that byte range
ByteSlice(chars, a, b) ==
    SubSeq(chars, CharsBefore(chars, a) + 1, CharsBefore(chars, b))

RECURSIVE DecimalValue(_)
DecimalValue(chars) ==
    IF chars = <<>> THEN 0
    ELSE 10 * DecimalValue(SubSeq(chars, 1, Len(chars) - 1)) + DigitValue(chars[Len(chars)])

\* str::parse::<i32>() and ::<u32>() of at most four characters: an optional
\* sign ("+", and "-" for i32) and then at least one digit, nothing else
ParseInt(chars, signed) ==
    LET sign == chars # <<>> /\ (Head(chars) = "+" \/ (signed /\ Head(chars) = "-"))
        body == IF sign THEN Tail(chars) ELSE chars
    IN  IF body # <<>> /\ \A i \in 1 .. Len(body) : body[i] \in DecimalDigits
          THEN [ok |-> TRUE,
                val |-> IF sign /\ Head(chars) = "-" THEN 0 - DecimalValue(body)
                        ELSE DecimalValue(body)]
          ELSE [ok |-> FALSE, val |-> 0]

\* .unwrap_or(default)
UnwrapOr(parsed_int, default) == IF parsed_int.ok THEN parsed_int.val ELSE default

IsLeapYear(year) == (year % 4 = 0 /\ year % 100 # 0) \/ year % 400 = 0

DaysInMonth(year, month) ==
    CASE month = 2 -> IF IsLeapYear(year) THEN 29 ELSE 28
      [] month \in {4, 6, 9, 11} -> 30
      [] OTHER -> 31

\* chrono::NaiveDate::from_ymd_opt(year, month, day).is_some()
from_ymd_opt(year, month, day) ==
    /\ month \in 1 .. 12
    /\ day \in 1 .. DaysInMonth(year, month)

\* Utc::now()
Now == [kind |-> "now"]

\* upload_date[a..b].parse().unwrap_or(default)
DatePart(chars, signed, default) == UnwrapOr(ParseInt(chars, signed), default)

\* let created_at = ..., lines 872-887; "panic" when a slice is cut inside a
\* character
created_at_of(date) ==
    IF ~date.some THEN Now
    ELSE IF ByteLen(date.chars) # 8 THEN Now
    ELSE IF ~IsCharBoundary(date.chars, 4) \/ ~IsCharBoundary(date.chars, 6)
         THEN [kind |-> "panic"]
    ELSE LET year == DatePart(ByteSlice(date.chars, 0, 4), TRUE, 2024)
             month == DatePart(ByteSlice(date.chars, 4, 6), FALSE, 1)
             day == DatePart(ByteSlice(date.chars, 6, 8), FALSE, 1)
         IN  IF from_ymd_opt(year, month, day)
               THEN [kind |-> "date", year |-> year, month |-> month, day |-> day]
               ELSE Now

\* upload dates a record of the tool may carry: a year part, a month part and
\* a day part, each well-formed or not
YearParts ==
    { <<"2", "0", "2", "4">>, <<"2", "0", "2", "3">>, <<"1", "9", "0", "0">>,
      <<"2", "0", "0", "0">>, <<"2", "0", "x", "4">>, <<"+", "2", "0", "2">>,
      <<"2", "0", "é">>, <<"2", "0", "2", "é">> }
MonthParts ==
    { <<"0", "1">>, <<"0", "2">>, <<"1", "2">>, <<"1", "3">>, <<"0", "0">>,
      <<"x", "2">>, <<"1">>, <<"é">>, <<"+", "2">> }
DayParts ==
    { <<"0", "1">>, <<"2", "8">>, <<"2", "9">>, <<"3", "0">>, <<"3", "1">>,
      <<"3", "2">>, <<"0", "0">>, <<"x", "x">>, <<"1">> }

\* the record has an upload_date
ReportUploadDate ==
    /\ ~converted /\ ~upload_date.some
    /\ \E y \in YearParts, mo \in MonthParts, d \in DayParts :
         upload_date' = [some |-> TRUE, chars |-> y \o mo \o d]
    /\ UNCHANGED <<otherThanMeta, thumbnails, thumbnail, thumbnail_url, thumb_resolved,
                   created_at, converted, flat_output, alt_output, listings>>

\* convert_ytdlp_to_video_info, the creation timestamp
ConvertUploadDate ==
    /\ ~converted
    /\ created_at' = created_at_of(upload_date)
    /\ converted' = TRUE
    /\ UNCHANGED <<otherThanMeta, thumbnails, thumbnail, thumbnail_url, thumb_resolved,
                   upload_date, flat_output, alt_output, listings>>

InitDates == StreamAbsent /\ SvcQuiet /\ BatchAbsent /\ ArchiveStart /\ FormatsAbsent /\ MetaAbsent /\ FrontAbsent

NextDates ==
    \/ ReportUploadDate
    \/ ConvertUploadDate

SpecDates == InitDates /\ [][NextDates]_vars

(***************************************************************************)
(* Enumeration: get_profile_video_list and its alternative                 *)
(***************************************************************************)

\* most lines of a listing the model looks at
MaxLines == 3

\* if videos.len() >= 50 { break; }
ALT_LIMIT == 50

NoTitle == [some |-> FALSE, text |-> ""]
NoThumbs == [some |-> FALSE, list |-> <<>>]
NoThumb == [some |-> FALSE, url |-> ""]

\* one line of the tool's standard output: blank, not a JSON record of the
\* expected shape, or a record; flat_ok: it deserializes as YtDlpProfileEntry,
\* full_ok: it deserializes as YtDlpVideoInfo
BlankLine == [kind |-> "blank"]
GarbageLine == [kind |-> "garbage"]
EntryLine(id, title, array, legacy, flat_ok, full_ok) ==
    [kind |-> "entry", id |-> id, title |-> title, thumbnails |-> array,
     thumbnail |-> legacy, flat_ok |-> flat_ok, full_ok |-> full_ok]

\* a line with a record that deserializes either way
FullEntry == EntryLine("v1", [some |-> TRUE, text |-> "first"], NoThumbs,
                       [some |-> TRUE, url |-> "legacy.jpg"], TRUE, TRUE)

LineChoices ==
    { BlankLine,
      GarbageLine,
      FullEntry,
      EntryLine("v2", NoTitle,
                [some |-> TRUE,
                 list |-> <<Thumb(NoId, "plain.jpg", 1080, 1920),
                            Thumb(SomeId(<<"c", "o", "v", "e", "r">>), "cover.jpg", 100, 100)>>],
                NoThumb, TRUE, FALSE) }

\* format!("TikTok Video #{}", index + 1), the index counting every line
DefaultTitle(line_index) == <<"TikTok Video #", line_index + 1>>

\* ProfileVideoInfo { .. } of the record on the line of that index (from 0)
ProfileVideoOf(line, line_index) ==
    [id |-> line.id,
     title |-> IF line.title.some THEN <<line.title.text>> ELSE DefaultTitle(line_index),
     thumbnail_url |-> extract_best_thumbnail_url(line.thumbnails, line.thumbnail)]

\* the line gives a record: it is not blank and deserializes (as
\* YtDlpVideoInfo in the alternative listing, as YtDlpProfileEntry in the flat)
LineParses(line, full) ==
    line.kind = "entry" /\ (IF full THEN line.full_ok ELSE line.flat_ok)

\* A loop that a line which does not deserialize ends.
RECURSIVE ParseLines_Aborting(_, _, _)
ParseLines_Aborting(lines, line_index, full) ==
    IF line_index >= Len(lines) THEN <<>>
    ELSE LET line == lines[line_index + 1]
         IN  IF LineParses(line, full)
               THEN <<ProfileVideoOf(line, line_index)>>
                      \o ParseLines_Aborting(lines, line_index + 1, full)
             ELSE IF line.kind = "blank"
               THEN ParseLines_Aborting(lines, line_index + 1, full)
             ELSE <<>>

\* for (index, line) in output_str.lines().enumerate(): the records that
\* deserialize, in the order of their lines
RECURSIVE ParseLines(_, _, _)
ParseLines(lines, line_index, full) ==
    IF line_index >= Len(lines) THEN <<>>
    ELSE LET line == lines[line_index + 1]
             rest == ParseLines(lines, line_index + 1, full)
         IN  IF LineParses(line, full)
               THEN <<ProfileVideoOf(line, line_index)>> \o rest
               ELSE rest

\* An alternative listing that takes every record it is given.
get_profile_video_list_alternative_Uncapped(alt) ==
    IF alt.status = "spawn_error"
      THEN [err |-> "IoError", videos |-> <<>>, tried |-> <<"flat", "alternative">>]
    ELSE IF alt.status = "exit_failure"
      THEN [err |-> "none", videos |-> <<>>, tried |-> <<"flat", "alternative">>]
    ELSE [err |-> "none", videos |-> ParseLines(alt.lines, 0, TRUE),
          tried |-> <<"flat", "alternative">>]

\* get_profile_video_list_alternative; tried: the listings asked of the tool
get_profile_video_list_alternative(alt) ==
    IF alt.status = "spawn_error"
      THEN [err |-> "IoError", videos |-> <<>>, tried |-> <<"flat", "alternative">>]
    ELSE IF alt.status = "exit_failure"
      THEN [err |-> "none", videos |-> <<>>, tried |-> <<"flat", "alternative">>]
    ELSE LET videos == ParseLines(alt.lines, 0, TRUE)
         IN  [err |-> "none", videos |-> SubSeq(videos, 1, Min(Len(videos), ALT_LIMIT)),
              tried |-> <<"flat", "alternative">>]

\* get_profile_video_list
get_profile_video_list(flat, alt) ==
    IF flat.status = "spawn_error"
      THEN [err |-> "IoError", videos |-> <<>>, tried |-> <<"flat">>]
    ELSE IF flat.status = "exit_failure"
      THEN [err |-> "UpstreamProcessError", videos |-> <<>>, tried |-> <<"flat">>]
    ELSE LET videos == ParseLines(flat.lines, 0, FALSE)
         IN  IF videos = <<>> THEN get_profile_video_list_alternative(alt)
             ELSE [err |-> "none", videos |-> videos, tried |-> <<"flat">>]

ToolStatuses == {"spawn_error", "exit_failure", "exit_ok"}

\* a listing of one record more than the alternative listing keeps, with a
\* line that does not deserialize in front
LongListing == <<GarbageLine>> \o [i \in 1 .. (ALT_LIMIT + 1) |-> FullEntry]

\* what the alternative listing prints, when it is asked
AltOutputs ==
    { [status |-> "spawn_error", lines |-> <<>>],
      [status |-> "exit_failure", lines |-> <<>>],
      [status |-> "exit_ok", lines |-> <<>>] }
    \cup { [status |-> "exit_ok", lines |-> <<BlankLine, l>>] : l \in LineChoices }
    \cup { [status |-> "exit_ok", lines |-> LongListing] }

NoListing == \A k \in 1 .. 2 : ~listings[k].done

\* the flat listing prints one more line
FlatPrintsLine ==
    /\ NoListing /\ flat_output.status = "none"
    /\ Len(flat_output.lines) < MaxLines
    /\ \E l \in LineChoices :
         flat_output' = [flat_output EXCEPT !.lines = Append(@, l)]
    /\ UNCHANGED <<otherThanMeta, thumbnails, thumbnail, thumbnail_url, thumb_resolved,
                   upload_date, created_at, converted, alt_output, listings>>

\* the flat listing ends
FlatExits ==
    /\ NoListing /\ flat_output.status = "none"
    /\ \E st \in ToolStatuses :
         flat_output' = [status |-> st,
                         lines |-> IF st = "spawn_error" THEN <<>> ELSE flat_output.lines]
    /\ UNCHANGED <<otherThanMeta, thumbnails, thumbnail, thumbnail_url, thumb_resolved,
                   upload_date, created_at, converted, alt_output, listings>>

\* the alternative listing's output is fixed
AltAnswers ==
    /\ NoListing /\ alt_output.status = "none"
    /\ \E o \in AltOutputs : alt_output' = o
    /\ UNCHANGED <<otherThanMeta, thumbnails, thumbnail, thumbnail_url, thumb_resolved,
                   upload_date, created_at, converted, flat_output, listings>>

\* An enumeration whose default titles go on counting where the enumeration
\* before it stopped.
ListProfileVideos_Counting(k) ==
    /\ ~listings[k].done
    /\ flat_output.status # "none" /\ alt_output.status # "none"
    /\ listings' = [listings EXCEPT ![k] =
                      [done |-> TRUE,
                       result |-> IF NoListing
                                    THEN get_profile_video_list(flat_output, alt_output)
                                    ELSE get_profile_video_list(
                                           [flat_output EXCEPT !.lines = <<BlankLine>> \o @],
                                           alt_output)]]
    /\ UNCHANGED <<otherThanMeta, thumbnails, thumbnail, thumbnail_url, thumb_resolved,
                   upload_date, created_at, converted, flat_output, alt_output>>

\* the k-th enumeration, against the same output of the tool
ListProfileVideos(k) ==
    /\ ~listings[k].done
    /\ flat_output.status # "none" /\ alt_output.status # "none"
    /\ listings' = [listings EXCEPT ![k] =
                      [done |-> TRUE,
                       result |-> get_profile_video_list(flat_output, alt_output)]]
    /\ UNCHANGED <<otherThanMeta, thumbnails, thumbnail, thumbnail_url, thumb_resolved,
                   upload_date, created_at, converted, flat_output, alt_output>>

InitListing == StreamAbsent /\ SvcQuiet /\ BatchAbsent /\ ArchiveStart /\ FormatsAbsent /\ MetaAbsent /\ FrontAbsent

NextListing ==
    \/ FlatPrintsLine
    \/ FlatExits
    \/ AltAnswers
    \/ \E k \in 1 .. 2 : ListProfileVideos(k)

SpecListing == InitListing /\ [][NextListing]_vars

(***************************************************************************)
(* Batch requests side by side: each handler builds its own TikTokService  *)
(* (its own TempDir), makes a session directory in it, downloads into it,  *)
(* collects the directory's video files and writes the archive into the    *)
(* shared ./downloads directory.                                           *)
(***************************************************************************)
Requests == {1, 2}
Users == {"a", "b"}
TempNames == 1 .. MaxTempNames
SessionIds == 1 .. MaxSessionIds
VideoNames == {"v1", "v2"}
BatchModes == {"profile", "selective"}

\* temp_dir.path().join(format!("profile_{}_{}", username, session_id)), or
\* "selective_{}_{}" in the selective pipeline
SessionDirOf(s) == <<s.temp_dir, s.mode, s.username, s.session_id>>

\* the requests between the creation of their service and their return
InFlight(r) == sess[r].pc \in {"download", "zip", "cleanup"}

\* the temporary directories that exist: those of the services in flight
LiveTempDirs == {sess[r].temp_dir : r \in {q \in Requests : InFlight(q)}}

\* TempDir::new() makes a directory with a random name, and makes it anew
\* under another name when the name is taken.
NewTempDir == TempNames \ LiveTempDirs

\* format!("tiktok_profile_{}.zip", username) and
\* format!("tiktok_selected_{}_{}_videos.zip", username, video_files.len())
ZipNameOf(mode, username, n) ==
    IF mode = "profile" THEN <<"tiktok_profile", username, 0>>
    ELSE <<"tiktok_selected", username, n>>

\* The handler builds its service and the pipeline reaches its download step:
\* the session directory is made under the service's TempDir with a fresh
\* Uuid::new_v4() in its name.
SessBegin(r) ==
    /\ sess[r].pc = "idle"
    /\ \E mode \in BatchModes, username \in Users, tmp \in NewTempDir,
          session_id \in SessionIds :
         sess' = [sess EXCEPT ![r] = [IdleSess EXCEPT !.pc = "download", !.mode = mode,
                                                      !.username = username,
                                                      !.temp_dir = tmp,
                                                      !.session_id = session_id]]
    /\ UNCHANGED <<otherThanFront, disk, archives, rateVars, gate>>

\* An invocation of the tool started by request r writes a video file where
\* its --output template points: into r's session directory.
SessDownload(r) ==
    /\ sess[r].pc = "download"
    /\ \E name \in VideoNames :
         /\ ~\E f \in disk : f.dir = SessionDirOf(sess[r]) /\ f.name = name
         /\ disk' = disk \cup {[dir |-> SessionDirOf(sess[r]), name |-> name, by |-> r]}
    /\ UNCHANGED <<otherThanFront, sess, archives, rateVars, gate>>

\* The downloads are over: read_dir(output_dir) collects the video files of
\* the session directory; with none the pipeline fails and the handler
\* returns, which drops the service's TempDir.
SessCollect(r) ==
    /\ sess[r].pc = "download"
    /\ LET found == {f \in disk : f.dir = SessionDirOf(sess[r])}
       IN  IF found = {}
             THEN /\ sess' = [sess EXCEPT ![r].pc = "done", ![r].result = "NoVideos"]
             ELSE /\ sess' = [sess EXCEPT ![r].pc = "zip", ![r].video_files = found,
                                          ![r].zip_name = ZipNameOf(sess[r].mode,
                                                                    sess[r].username,
                                                                    Cardinality(found))]
    /\ UNCHANGED <<otherThanFront, disk, archives, rateVars, gate>>

\* create_zip_archive: File::create on downloads_dir.join(zip_filename) makes
\* or truncates the file, and the collected files are written into it.
SessZip(r) ==
    /\ sess[r].pc = "zip"
    /\ archives' = {a \in archives : a.name # sess[r].zip_name}
                     \cup {[name |-> sess[r].zip_name, entries |-> sess[r].video_files,
                            built_by |-> r]}
    /\ sess' = [sess EXCEPT ![r].pc = "cleanup"]
    /\ UNCHANGED <<otherThanFront, disk, rateVars, gate>>

\* cleanup_video_files, remove_dir_all(session_dir), the pipeline returns the
\* archive's path and the handler its response; the service is dropped.
SessFinish(r) ==
    /\ sess[r].pc = "cleanup"
    /\ disk' = {f \in disk : f.dir # SessionDirOf(sess[r])}
    /\ sess' = [sess EXCEPT ![r].pc = "done", ![r].result = "Ok"]
    /\ UNCHANGED <<otherThanFront, archives, rateVars, gate>>

InitSessions ==
    /\ StreamAbsent /\ SvcQuiet /\ BatchAbsent /\ ArchiveStart /\ FormatsAbsent /\ MetaAbsent
    /\ FrontAbsent

NextSessions ==
    \E r \in Requests :
        \/ SessBegin(r)
        \/ SessDownload(r)
        \/ SessCollect(r)
        \/ SessZip(r)
        \/ SessFinish(r)

SpecSessions == InitSessions /\ [][NextSessions]_vars

(***************************************************************************)
(* rate_limit_middleware and RateLimiter                                   *)
(***************************************************************************)
\* the first address of x-forwarded-for, "unknown" without the header
RateClients == {"10.0.0.1", "unknown"}

\* RateLimiter::new: Arc<Mutex<HashMap<String, Vec<u64>>>>, empty; a client
\* with no entry has no timestamps
RateLimiter_new == [c \in RateClients |-> <<>>]

\* client_requests.retain(|&timestamp| now - timestamp < self.window_seconds)
Retain(timestamps, now) ==
    SelectSeq(timestamps, LAMBDA t : now - t < WINDOW_SECONDS)

\* check_rate_limit on the map `requests`: whether the request is allowed, and
\* the map afterwards
check_rate_limit(requests, client_ip, now) ==
    LET client_requests == Retain(requests[client_ip], now)
    IN  IF Len(client_requests) >= MAX_REQUESTS
          THEN [allowed |-> FALSE,
                requests |-> [requests EXCEPT ![client_ip] = client_requests]]
          ELSE [allowed |-> TRUE,
                requests |-> [requests EXCEPT ![client_ip] = Append(client_requests, now)]]

\* rate_limit_middleware on one request: it makes a RateLimiter of its own
\* (`let rate_limiter = RateLimiter::new(10, 60)`), asks it, and passes the
\* request on or answers 429; the limiter is dropped when the function returns
RateLimitRequest ==
    /\ Len(admitted) + Len(rejected) < MaxRequests
    /\ \E client_ip \in RateClients :
         LET rate_limiter == RateLimiter_new
             answer == check_rate_limit(rate_limiter, client_ip, clock)
         IN  IF answer.allowed
               THEN /\ admitted' = Append(admitted, [ip |-> client_ip, at |-> clock])
                    /\ UNCHANGED rejected
               ELSE /\ rejected' = Append(rejected, [ip |-> client_ip, at |-> clock])
                    /\ UNCHANGED admitted
    /\ UNCHANGED <<otherThanFront, sessVars, gate, clock>>

\* SystemTime::now() moves on
ClockTick ==
    /\ clock + ClockStep <= MaxClock
    /\ clock' = clock + ClockStep
    /\ UNCHANGED <<otherThanFront, sessVars, gate, admitted, rejected>>

InitRate ==
    /\ StreamAbsent /\ SvcQuiet /\ BatchAbsent /\ ArchiveStart /\ FormatsAbsent /\ MetaAbsent
    /\ FrontAbsent

NextRate ==
    \/ RateLimitRequest
    \/ ClockTick

SpecRate == InitRate /\ [][NextRate]_vars

(***************************************************************************)
(* The start of every handler that reaches the extraction tool:            *)
(* verify_recaptcha_if_enabled, TikTokService::new(), the service call     *)
(***************************************************************************)
\* the handlers of the metadata, streaming and batch-creation routes
GatedHandlers ==
    {"get_video_info", "download_video", "stream_video_download",
     "stream_audio_download", "get_profile_info", "download_profile_zip",
     "download_selected_profile_videos"}

\* a request arrives at one of the handlers
HandlerEntered ==
    /\ gate.pc = "idle"
    /\ \E handler \in GatedHandlers, token \in RecaptchaTokens :
         gate' = [IdleGate EXCEPT !.pc = "verify", !.handler = handler, !.token = token]
    /\ UNCHANGED <<otherThanFront, sessVars, rateVars>>

\* verify_recaptcha_if_enabled(..).await?: its BadRequest leaves the handler
HandlerVerifies ==
    /\ gate.pc = "verify"
    /\ gate' = IF verify_recaptcha_if_enabled(gate.token)
                 THEN [gate EXCEPT !.pc = "construct"]
                 ELSE [gate EXCEPT !.pc = "done", !.result = "BadRequest"]
    /\ UNCHANGED <<otherThanFront, sessVars, rateVars>>

\* TikTokService::new().map_err(|e| AppError::Internal(e))?
HandlerBuildsService ==
    /\ gate.pc = "construct"
    /\ \E tempdir_ok \in BOOLEAN :
         gate' = IF tempdir_ok THEN [gate EXCEPT !.pc = "call", !.service = TRUE]
                 ELSE [gate EXCEPT !.pc = "done", !.result = "Internal"]
    /\ UNCHANGED <<otherThanFront, sessVars, rateVars>>

\* the service call: it rejects the URL, or goes on to its first subprocess,
\* the version probe
HandlerCallsService ==
    /\ gate.pc = "call"
    /\ \E url_ok \in BOOLEAN :
         gate' = IF url_ok THEN [gate EXCEPT !.pc = "done", !.result = "called",
                                             !.spawned = <<"version">>]
                 ELSE [gate EXCEPT !.pc = "done", !.result = "Internal"]
    /\ UNCHANGED <<otherThanFront, sessVars, rateVars>>

\* the response is sent
HandlerLeft ==
    /\ gate.pc = "done"
    /\ gate' = IdleGate
    /\ UNCHANGED <<otherThanFront, sessVars, rateVars>>

InitGate ==
    /\ StreamAbsent /\ SvcStart /\ BatchAbsent /\ ArchiveStart /\ FormatsAbsent /\ MetaAbsent
    /\ FrontAbsent

NextGate ==
    \/ HandlerEntered
    \/ HandlerVerifies
    \/ HandlerBuildsService
    \/ HandlerCallsService
    \/ HandlerLeft

SpecGate == InitGate /\ [][NextGate]_vars

(***************************************************************************)
(* Properties of VideoStream                                               *)
(***************************************************************************)

\* C1 (as stated): once the stream wrapper has been destroyed, on whichever exit
\* path, the subprocess has been signalled to terminate exactly once.
C1_SignalledExactlyOnce ==
    stream_state = "dropped" => signals_sent = 1

\* C1 (amended): the teardown hook start_kill runs exactly once, when the wrapper
\* is destroyed, and never before; the subprocess is signalled at most once:
\* exactly once when no poll had observed its exit, and not at all when a poll
\* had already observed (reaped) it.
C1_TeardownOnce ==
    /\ signals_sent <= 1
    /\ stream_state = "live" => (kill_calls = 0 /\ signals_sent = 0)
    /\ stream_state = "dropped" =>
           /\ kill_calls = 1
           /\ signals_sent = (IF child_done THEN 0 ELSE 1)

\* The consumer abandoned the stream mid-flight, after a data chunk, with the
\* subprocess still running.
C1_Witness ==
    /\ stream_state = "dropped"
    /\ last_item = "data"
    /\ kill_pending
    /\ signals_sent = 1

\* C2: a subprocess whose stream was dropped does not keep running forever: after
\* the drop it is eventually not running any more.
C2_DroppedProcessTerminates ==
    (stream_state = "dropped") ~> (child_proc # "running")

\* The consumer pulled exactly one chunk and dropped the stream while the
\* subprocess was running.
C2_Witness ==
    /\ stream_state = "dropped"
    /\ Len(out) = 1
    /\ child_proc = "running"

\* C3: a poll that begins when the subprocess has exited non-zero returns the
\* error without reading the pipe, whatever is buffered; after the failure was
\* observed no poll yields data.
C3_FailureTakesPriority ==
    /\ poll_pc = "read" => ~fail_at_pull
    /\ (poll_pc = "idle" /\ fail_at_pull) => last_item = "err_proc"
    /\ ~data_after_fail

\* A poll returned the process error while unread bytes were in the pipe.
C3_Witness ==
    /\ last_item = "err_proc"
    /\ fail_at_pull
    /\ pipe # <<>>

\* C4 (as stated): a stream whose subprocess exited non-zero never ends with a
\* clean end-of-stream (None with no error item before it).
C4_FailedNeverEndsClean ==
    ~(ended_clean /\ ProcFailed)

\* the chunks of a sequence of chunks, joined
RECURSIVE Concat(_)
Concat(chunks) ==
    IF chunks = <<>> THEN <<>> ELSE Head(chunks) \o Concat(Tail(chunks))

\* the bytes the subprocess has written to its standard output, in order
BytesWritten == [i \in 1 .. written |-> i]

\* C27: every chunk delivered is what one read of at most 8192 bytes filled,
\* never empty; a zero-byte read ends the stream; the chunks delivered and
\* the bytes still unread are the bytes written, in order, none lost and
\* none twice; so when the subprocess has exited successfully and the stream
\* has ended, the chunks joined are the bytes the subprocess wrote.
C27_ChunksAreTheOutput ==
    /\ \A i \in 1 .. Len(out) : Len(out[i]) \in 1 .. BUFFER_SIZE
    /\ Concat(out) \o pipe = BytesWritten
    /\ last_item = "eof" => (pipe = <<>> /\ ~pipe_open)
    /\ (child_proc = "exited" /\ exit_status = 0 /\ last_item = "eof")
         => Concat(out) = BytesWritten

\* The subprocess wrote three bytes and exited successfully; the stream
\* delivered them in two chunks, one of them a read that left a byte in the
\* pipe, and then ended.
C27_Witness ==
    /\ child_proc = "exited" /\ exit_status = 0
    /\ last_item = "eof"
    /\ written = 3
    /\ out = <<<<1, 2>>, <<3>>>>

\* C28 (as stated): a pipe read error is yielded as an error item and ends
\* the stream: once an error item has been yielded, no pull yields a data
\* chunk. (After the process error none does; the read error is the case.)
C28_NoDataAfterError ==
    ~(err_seen /\ last_item = "data")

(***************************************************************************)
(* Properties of the single-item operations                                *)
(***************************************************************************)

\* The shape an operation requires of its URL, matched against the whole URL:
\* a single video, or /@username with at most one trailing slash.
VideoShape(u) ==
    LET h == TikTokHostEnd(u)
        e == RunEnd(u, h + 2, NotSlash)
    IN  \/ /\ VideoPattern1(u)
           /\ RunEnd(u, e + 3, Digits) = Len(u) + 1
        \/ /\ VideoPattern2(u) \/ VideoPattern3(u)
           /\ u[Len(u)] \in Alnum \cup {"/"}
           /\ \A i \in 1 .. Len(u) - 1 : u[i] = "/" => u[i + 1] # "/"
        \/ /\ VideoPattern4(u)
           /\ u[Len(u)] = ".html"

ProfileShape(u) ==
    LET h == TikTokHostEnd(u)
        e == RunEnd(u, h + 2, UserChars)
    IN  /\ h # 0
        /\ At(u, h) = "/" /\ At(u, h + 1) = "@"
        /\ e > h + 2
        /\ e = Len(u) + 1 \/ (e = Len(u) /\ u[e] = "/")

RequiredShape(op, u) ==
    IF op = "getProfileInfo" THEN UrlParses(u) /\ ProfileShape(u)
    ELSE UrlParses(u) /\ VideoShape(u)

\* the request got past reCAPTCHA and service construction
Served(r) == req[r].pc # "idle" /\ req[r].result \notin {"BadRequest", "Internal"}

\* C5 (as stated): an operation given a URL that is malformed or not of the shape it
\* requires returns InvalidInput and has spawned no subprocess.
C5_BadUrlSpawnsNothing ==
    \A r \in Slots :
        (Served(r) /\ ~RequiredShape(req[r].op, req[r].url)) =>
            /\ req[r].spawned = <<>>
            /\ req[r].pc \in {"respond", "done"} => req[r].result = "InvalidInput"

\* C25 (as stated): the profile-URL predicate accepts only URLs whose path is
\* exactly /@username, with at most one trailing slash, on tiktok.com: a
\* getProfileInfo that was not refused with InvalidInput was given such a URL
\* (not a single-video URL, an empty username, a path without "@" or an
\* off-platform host).
C25_ProfileAcceptedOnlyIfExact ==
    \A r \in Slots :
        (/\ req[r].op = "getProfileInfo"
         /\ Served(r)
         /\ req[r].pc \in {"respond", "done"}
         /\ req[r].result # "InvalidInput")
        => ProfileShape(req[r].url)

\* the subprocesses of one streaming call, in the order the code starts them
StreamSpawnOrder(op) ==
    IF op = "streamVideo" THEN <<"version", "version", "dump_json", "extract">>
    ELSE <<"version", "extract">>

IsPrefix(a, b) == Len(a) <= Len(b) /\ a = SubSeq(b, 1, Len(a))

AdvertisedIds(avail) == {avail[i].format_id : i \in 1 .. Len(avail)}

\* C6: a streamVideo whose format id is not among the fetched metadata's
\* available_formats ends with InvalidFormat, having spawned no extraction and
\* not run fetch_add.
C6_UnadvertisedFormatRejected ==
    \A r \in Slots :
        ( /\ req[r].op = "streamVideo"
          /\ req[r].meta_fetched
          /\ req[r].format_id \notin AdvertisedIds(req[r].avail) ) =>
            /\ req[r].pc \in {"respond", "done"}
            /\ req[r].result = "InvalidFormat"
            /\ \A i \in 1 .. Len(req[r].spawned) : req[r].spawned[i] # "extract"
            /\ ~req[r].allocated

\* A streamVideo was answered InvalidFormat after its metadata had been fetched.
C6_Witness ==
    \E r \in Slots :
        /\ req[r].op = "streamVideo" /\ req[r].pc = "done"
        /\ req[r].result = "InvalidFormat"
        /\ Len(req[r].avail) >= 2
        /\ req[r].spawned = <<"version", "version", "dump_json">>

StrictlyIncreasing(log) ==
    \A i, j \in 1 .. Len(log) : i < j => U32Less(log[i], log[j])

\* C7 (as stated): the counter starts at 1 and every allocation returns a value
\* strictly greater than every earlier one, so no two allocations coincide and
\* the counter never returns to an earlier value.
C7_AlwaysIncreasing ==
    /\ alloc_log = <<>> => DOWNLOAD_COUNTER = U32(0, 1)
    /\ StrictlyIncreasing(alloc_log)
    /\ \A i \in 1 .. Len(alloc_log) : U32Less(alloc_log[i], DOWNLOAD_COUNTER)

\* C7 (amended): the same, for as long as the 32-bit counter has not wrapped
\* around, that is for the first 2^32 - 1 allocations.
C7_IncreasingUntilWrap ==
    /\ alloc_log = <<>> => DOWNLOAD_COUNTER = U32(0, 1)
    /\ (alloc_log # <<>> /\ alloc_log[1][1] = 0) => alloc_log[1] = U32(0, 1)
    /\ ~wrapped =>
         /\ StrictlyIncreasing(alloc_log)
         /\ \A i \in 1 .. Len(alloc_log) : U32Less(alloc_log[i], DOWNLOAD_COUNTER)

\* Two requests in flight at once have both taken a value from the counter.
C7_Witness ==
    /\ ~wrapped
    /\ Len(alloc_log) >= 2
    /\ \E r1, r2 \in Slots :
         /\ r1 # r2
         /\ req[r1].pc = "spawn" /\ req[r2].pc = "spawn"
         /\ req[r1].op # req[r2].op

\* C8 (as stated): serving a streamVideo or streamAudio request, its service
\* construction included, creates and deletes no file or directory.
C8_StreamsTouchNoDisk ==
    \A r \in Slots : req[r].op \in StreamOps => req[r].fs_ops = 0

(***************************************************************************)
(* Properties of downloadSelected                                          *)
(***************************************************************************)

\* the selective pipeline has returned after it had entered its download loop, and no
\* operation on the host's filesystem has failed
BatchReturned ==
    /\ batch_mode = "selected"
    /\ batch_pc \in {"respond", "done"}
    /\ attempts # <<>>
    /\ batch_result # "FsError"

\* the requested URLs whose invocation exited with success
SucceededUrls ==
    {selected_video_urls[i] : i \in {k \in 1 .. Len(attempts) : attempts[k] = "exit_ok"}}

\* C9 (as stated): when at least one download of a selective batch succeeds,
\* the pipeline succeeds and the archive holds exactly the files of the
\* successful downloads.
C9_ArchiveIsTheSuccessfulDownloads ==
    (BatchReturned /\ SucceededUrls # {}) =>
        /\ batch_result = "Ok"
        /\ zip_entries = {FileOf(u, "mp4") : u \in SucceededUrls}

\* C10 (as stated): however one URL's invocation fails, the remaining URLs are
\* still attempted, and the batch fails exactly when the collected file set is
\* empty.
C10_EveryUrlAttempted ==
    BatchReturned =>
        /\ Len(attempts) = Len(selected_video_urls)
        /\ batch_result # "Ok" <=> video_files = {}

\* C26 (as stated): no download invocation of downloadSelected is spawned
\* with a URL that has not passed the single-video predicate.
C26_OnlyValidatedUrlsDownloaded ==
    batch_mode = "selected" =>
        \A i \in 1 .. Len(attempts) :
            attempts[i] # "spawn_error" => is_valid_tiktok_url(selected_video_urls[i])

\* C30: within one selective batch request at most one download subprocess
\* runs at any moment, and it is the one for the next URL of the list: every
\* URL before it has had its invocation, and that invocation has ended.
C30_OneDownloadAtATime ==
    batch_mode = "selected" =>
        /\ Cardinality(downloads_running) <= 1
        /\ \A i \in downloads_running :
             /\ i = index + 1
             /\ Len(attempts) = i - 1
             /\ \A j \in 1 .. (i - 1) : attempts[j] # "spawn_error"

\* The download for the second URL of the list runs, after the one for the
\* first URL has exited with a failure.
C30_Witness ==
    /\ batch_mode = "selected"
    /\ batch_pc = "await_output"
    /\ downloads_running = {2}
    /\ attempts = <<"exit_fail">>
    /\ Len(selected_video_urls) = 3

(***************************************************************************)
(* Properties of the batch pipelines                                       *)
(***************************************************************************)

\* C11: in bulk mode a non-zero exit of the single invocation fails the batch
\* with BatchDownloadFailed; no archive is created or returned, whatever the
\* invocation had written to the session directory.
C11_BulkFailureFailsBatch ==
    (batch_mode = "bulk" /\ attempts = <<"all_exit_fail">>) =>
        /\ batch_pc \in {"respond", "done"}
        /\ batch_result = "BatchDownloadFailed"
        /\ video_files = {}
        /\ zip_path = NoZip /\ zip_entries = {}

\* The single invocation failed after it had written video files.
C11_Witness ==
    /\ batch_mode = "bulk" /\ batch_pc = "respond"
    /\ attempts = <<"all_exit_fail">>
    /\ Cardinality(session_files) = 2

\* a pipeline that failed after it had created its session directory
FailedAfterSession == attempts # <<>> /\ batch_result \notin {"none", "Ok"}

\* C12 (as stated): when a pipeline fails after it created its session
\* directory, the directory no longer exists at the moment the pipeline returns
\* its error.
C12_SessionGoneAtPipelineError ==
    (batch_pc = "respond" /\ FailedAfterSession) => ~session_dir

\* C12 (amended): the directory still exists at the moment the pipeline returns
\* its error, and no longer exists once the handler has returned (the service,
\* and with it the TempDir that holds the directory, is dropped there).
C12_SessionGoneAtHandlerReturn ==
    FailedAfterSession =>
        /\ batch_pc = "respond" => (session_dir /\ service_temp_dir)
        /\ batch_pc = "done" => ~session_dir

\* A selective batch whose invocations left nothing to collect has been answered.
C12_Witness ==
    /\ batch_pc = "done" /\ batch_mode = "selected"
    /\ batch_result = "NoVideosDownloaded"
    /\ Len(attempts) = 2

\* C13 (as stated): after the handler of a batch request has returned, with
\* success or with any failure, neither the session directory nor any
\* downloaded video file remains; only the archive, on success, outlives the
\* request.
C13_OnlyArchiveOutlivesRequest ==
    batch_pc = "done" =>
        /\ ~session_dir /\ session_files = {} /\ ~service_temp_dir
        /\ batch_result # "Ok" => zip_path = NoZip

\* C14 (as stated): when archive building fails part-way, no archive file is
\* left at the destination path in ./downloads.
C14_NoPartialArchive ==
    ( /\ batch_pc \in {"respond", "done"}
      /\ batch_result = "FsError"
      /\ video_files # {} ) => zip_path = NoZip

\* C18 (as stated): a pipeline that has started is never abandoned; whenever it
\* is no longer running it has produced its archive or failed.
C18_RunsToCompletion ==
    (attempts # <<>> /\ batch_pc \in {"respond", "done", "cancelled"}) =>
        batch_result # "none"

\* the archive is written in full at its path in ./downloads
ArchiveFinalized == zip_path # NoZip /\ zip_entries = video_files

\* the pipeline is between the scan of the session directory and its return
InPipelineTail == batch_pc \in {"zip", "cleanup", "remove_dir", "respond"}

\* C31: in a batch run the archive is written in full in ./downloads first,
\* then the input files are deleted, then the session directory is removed:
\* no input is deleted and the directory is not removed before the archive
\* is finalized; the directory is removed after the step that deletes the
\* inputs; a build that fails leaves the inputs in place when the pipeline
\* returns; the archive of a successful run is outside the session directory
\* and is still there when the directory and the service's temporary
\* directory are gone.
C31_ArchiveThenInputsThenDir ==
    /\ (InPipelineTail /\ ~(video_files \subseteq session_files)) =>
          /\ ArchiveFinalized
          /\ batch_pc \in {"remove_dir", "respond"}
          /\ batch_pc = "respond" => batch_result = "Ok"
    /\ (InPipelineTail /\ video_files # {} /\ ~session_dir) =>
          /\ ArchiveFinalized
          /\ batch_pc = "respond" /\ batch_result = "Ok"
    /\ (batch_pc = "respond" /\ batch_result = "FsError" /\ video_files # {}) =>
          (session_dir /\ video_files \subseteq session_files)
    /\ (batch_pc \in {"respond", "done"} /\ batch_result = "Ok") => ArchiveFinalized

\* A selective batch has returned its archive of two files; the inputs are
\* deleted and the session directory is removed.
C31_Witness ==
    /\ batch_pc = "respond" /\ batch_result = "Ok"
    /\ batch_mode = "selected"
    /\ Cardinality(video_files) = 2
    /\ ArchiveFinalized
    /\ session_files = {} /\ ~session_dir
    /\ removal_warnings = {}

\* C32: a failure to delete an input file or to remove the session directory
\* after the archive was built never fails the batch: the pipeline returns
\* success, with the archive in place.
C32_RemovalFailuresNotFatal ==
    (removal_warnings # {} /\ batch_pc \in {"respond", "done"}) =>
        /\ batch_result = "Ok"
        /\ ArchiveFinalized

\* The pipeline has returned success although one input file could not be
\* deleted and the session directory could not be removed.
C32_Witness ==
    /\ batch_pc = "respond" /\ batch_result = "Ok"
    /\ SessionDirEntry \in removal_warnings
    /\ \E f \in video_files : f \in removal_warnings /\ f \in session_files
    /\ session_dir

(***************************************************************************)
(* Properties of archive delivery                                          *)
(***************************************************************************)

\* C15 (as stated): an archive whose path a batch request has returned stays
\* present at that path until a delivery request has started streaming it, in
\* every interleaving with other creations and deliveries of the same name.
C15_ArchiveKeptUntilDelivered ==
    awaiting_delivery \subseteq present

\* C16: a deletion task is spawned by a delivery that found and opened its file,
\* one per such delivery and none by a failed delivery, and no deletion runs
\* before the 30 s delay of its task has elapsed.
C16_OneDeletionPerDelivery ==
    /\ scheduled = ok_deliveries
    /\ scheduled_paths = streamed_paths
    /\ Len(cleanup_tasks) <= ok_deliveries
    /\ failed_deliveries > 0 /\ ok_deliveries = 0 => scheduled_paths = {}
    /\ ~deleted_early
    /\ deleted_paths \subseteq scheduled_paths

\* One delivery failed, another streamed the archive, and its task has deleted
\* the file after the delay.
C16_Witness ==
    /\ failed_deliveries = 1 /\ ok_deliveries = 1
    /\ ArchivePath \in deleted_paths
    /\ cleanup_tasks = <<>>

\* C17 (as stated): only files inside ./downloads are streamed by a delivery
\* request, given to a deletion task, or deleted by one.
C17_OnlyDownloadsServed ==
    /\ streamed_paths \subseteq DownloadsPaths
    /\ scheduled_paths \subseteq DownloadsPaths
    /\ deleted_paths \subseteq DownloadsPaths

\* C33 (as stated): the build opens its destination for exclusive creation;
\* a file that exists at the destination path is never truncated or
\* replaced by a build.
C33_ExistingArchiveNeverReplaced ==
    truncations = 0

\* C34: a deletion task never fails or crashes: every task that has finished
\* ended by deleting the file, by logging that it could not, or (its service
\* could not be built) by doing nothing; a task that found the file already
\* gone deleted nothing; and no task is lost: the finished and the sleeping
\* tasks are the tasks the deliveries scheduled, one for each streaming
\* response, which stay as they were returned.
C34_DeletionTaskNeverFails ==
    /\ \A i \in 1 .. Len(task_outcomes) :
         /\ task_outcomes[i].outcome \in {"deleted", "logged", "skipped"}
         /\ task_outcomes[i].outcome = "deleted" => task_outcomes[i].found
         /\ ~task_outcomes[i].found => task_outcomes[i].outcome \in {"logged", "skipped"}
    /\ Len(task_outcomes) + Len(cleanup_tasks) = scheduled
    /\ scheduled = ok_deliveries

\* Two deliveries streamed the one archive and each scheduled a deletion: the
\* first task deleted the file, the second found it gone and logged that.
C34_Witness ==
    /\ creations = 1 /\ ok_deliveries = 2
    /\ task_outcomes = <<[path |-> ArchivePath, found |-> TRUE, outcome |-> "deleted"],
                         [path |-> ArchivePath, found |-> FALSE, outcome |-> "logged"]>>

(***************************************************************************)
(* Properties of the error responses                                       *)
(***************************************************************************)

\* the failure kinds of the single-item pipelines
FailureKinds == {"InvalidInput", "DependencyUnavailable", "InvalidFormat", "IoError"}

\* C19 (as stated): a pipeline failure reaches the client as a structured
\* failure whose kind (status and error type) identifies its cause: no other
\* cause gets the same kind.
C19_KindIdentifiesCause ==
    \A r \in Slots :
        (req[r].pc = "done" /\ req[r].result \in FailureKinds) =>
            \A other \in FailureKinds \ {req[r].result} :
                LET mine == ErrorResponse(req[r].result)
                    theirs == ErrorResponse(other)
                IN  <<mine.status, mine.error_type>> # <<theirs.status, theirs.error_type>>

(***************************************************************************)
(* Properties of format parsing                                            *)
(***************************************************************************)

\* C20: for every input format list, the list parse_available_formats returns
\* is ordered by strictly descending height, so that no two entries have the
\* same height, and has at most 5 entries.
C20_DescendingAtMostFive ==
    parsed =>
        /\ Len(available_formats) <= 5
        /\ \A i, j \in 1 .. Len(available_formats) :
             i < j => available_formats[i].height > available_formats[j].height

\* Parsed: an unsorted list with six qualifying heights, one of them twice.
C20_Witness ==
    /\ parsed
    /\ Len(info_formats.list) = MaxFormatsIn
    /\ info_formats.list[1].format_id = "f240"
    /\ \E i, j \in 1 .. Len(info_formats.list) :
         info_formats.list[i].format_id = "g720" /\ info_formats.list[j].format_id = "f720"
    /\ Len(available_formats) >= 4


\* C21 (as stated): whenever no format qualifies (the tool's format list is
\* absent, is empty, or holds only entries that are filtered out) parsing
\* returns exactly the one synthetic fallback entry, format id "best"; the
\* returned list is never empty.
C21_FallbackWhenNoneQualify ==
    parsed =>
        /\ available_formats # <<>>
        /\ (~info_formats.some \/ FilterFormats(info_formats.list) = <<>>)
             => available_formats = <<FallbackFormat>>


(***************************************************************************)
(* Properties of thumbnail resolution                                      *)
(***************************************************************************)

\* C22: for every thumbnails array with one entry whose identifier marks it
\* as the cover image, the URL resolved is that entry's URL, wherever the
\* entry stands and whatever the other entries' resolutions and the legacy
\* thumbnail field are.
C22_CoverEntryWins ==
    thumb_resolved =>
        \A i \in 1 .. Len(thumbnails.list) :
            (/\ IsCoverId(thumbnails.list[i].id)
             /\ \A j \in 1 .. Len(thumbnails.list) :
                  j # i => ~IsCoverId(thumbnails.list[j].id))
            => thumbnail_url = Returned([some |-> TRUE, url |-> thumbnails.list[i].url])

\* Resolved: the cover entry stands last, behind an entry of the largest
\* resolution, and the legacy field is set.
C22_Witness ==
    /\ thumb_resolved
    /\ thumbnail.some
    /\ Len(thumbnails.list) = 3
    /\ thumbnails.list[1].url = "plain.jpg"
    /\ thumbnails.list[2].url = "dynamic.jpg"
    /\ thumbnails.list[3].url = "cover.jpg"
    /\ thumbnail_url.url = "cover.jpg"

\* a <= b for two products in full
ProductLeq(a, b) ==
    \/ a = b
    \/ \E k \in 1 .. 4 : a[k] < b[k] /\ \A l \in 1 .. (k - 1) : a[l] = b[l]

\* C36 (as stated): with no cover entry in the array, a non-empty array gives
\* the URL of an entry whose area height x width (a missing dimension
\* counting as 0) is the largest, for all 32-bit heights and widths; with
\* the array absent or empty the legacy thumbnail field is the result, none
\* when that is absent too.
C36_LargestAreaElseLegacy ==
    (thumb_resolved /\ CoverThumbnail(thumbnails.list) = 0) =>
        IF thumbnails.some /\ thumbnails.list # <<>>
          THEN /\ ~thumbnail_url.panicked /\ thumbnail_url.some
               /\ \E i \in 1 .. Len(thumbnails.list) :
                    /\ thumbnail_url.url = thumbnails.list[i].url
                    /\ \A j \in 1 .. Len(thumbnails.list) :
                         ProductLeq(ExactArea(thumbnails.list[j]),
                                    ExactArea(thumbnails.list[i]))
          ELSE thumbnail_url = Returned(thumbnail)


(***************************************************************************)
(* Properties of the upload date                                           *)
(***************************************************************************)

\* an 8-character string of digits that names a day of the calendar
ValidYYYYMMDD(chars) ==
    /\ Len(chars) = 8
    /\ \A i \in 1 .. 8 : chars[i] \in DecimalDigits
    /\ from_ymd_opt(DecimalValue(SubSeq(chars, 1, 4)), DecimalValue(SubSeq(chars, 5, 6)),
                    DecimalValue(SubSeq(chars, 7, 8)))

\* C23 (as stated): the conversion never aborts because of the upload date;
\* a valid YYYYMMDD string gives that date, and every other upload date
\* (absent, not 8 characters long, with a non-digit character or an
\* impossible month or day) gives the current time.
C23_DateOrNow ==
    converted =>
        /\ created_at.kind # "panic"
        /\ IF upload_date.some /\ ValidYYYYMMDD(upload_date.chars)
             THEN created_at = [kind |-> "date",
                                year |-> DecimalValue(SubSeq(upload_date.chars, 1, 4)),
                                month |-> DecimalValue(SubSeq(upload_date.chars, 5, 6)),
                                day |-> DecimalValue(SubSeq(upload_date.chars, 7, 8))]
             ELSE created_at = Now


(***************************************************************************)
(* Properties of the enumeration                                           *)
(***************************************************************************)

WellFormed(lines, full) == {i \in 1 .. Len(lines) : LineParses(lines[i], full)}

\* the n-th smallest member of a set of positions
NthOf(S, n) == CHOOSE i \in S : Cardinality({j \in S : j < i}) = n - 1

\* videos holds the records of the first `most` well-formed lines, each once,
\* in the order of the lines
ExactlyTheRecords(videos, lines, full, most) ==
    /\ Len(videos) = Min(Cardinality(WellFormed(lines, full)), most)
    /\ \A n \in 1 .. Len(videos) :
         videos[n] = ProfileVideoOf(lines[NthOf(WellFormed(lines, full), n)],
                                    NthOf(WellFormed(lines, full), n) - 1)

\* C37: an enumeration whose flat listing exited successfully with a record
\* among its lines returns the records of the well-formed lines, all of them
\* and nothing else, in the order of the lines, whatever blank and malformed
\* lines stand between them; no malformed line makes it fail.
C37_ExactlyWellFormedInOrder ==
    \A k \in 1 .. 2 :
        (/\ listings[k].done
         /\ flat_output.status = "exit_ok"
         /\ WellFormed(flat_output.lines, FALSE) # {})
        => /\ listings[k].result.err = "none"
           /\ ExactlyTheRecords(listings[k].result.videos, flat_output.lines, FALSE,
                                Len(flat_output.lines))

\* Enumerated: a malformed line, then a record, then a record with no title.
C37_Witness ==
    /\ listings[1].done
    /\ flat_output.status = "exit_ok"
    /\ Len(flat_output.lines) = 3
    /\ flat_output.lines[1] = GarbageLine
    /\ flat_output.lines[2] = FullEntry
    /\ Len(listings[1].result.videos) = 2
    /\ listings[1].result.videos[1].id = "v1"
    /\ listings[1].result.videos[2].title = <<"TikTok Video #", 3>>

\* the k-th enumeration asked the tool for the alternative listing
AlternativeTried(k) ==
    \E i \in 1 .. Len(listings[k].result.tried) : listings[k].result.tried[i] = "alternative"

\* what the alternative listing gave is within its limit, and is the records
\* of the first well-formed lines of its output
AlternativeResult(k) ==
    /\ Len(listings[k].result.videos) <= ALT_LIMIT
    /\ alt_output.status = "exit_ok"
         => /\ listings[k].result.err = "none"
            /\ ExactlyTheRecords(listings[k].result.videos, alt_output.lines, TRUE,
                                 ALT_LIMIT)

\* C38 (as stated): the alternative listing is attempted exactly when the
\* flat listing recovered no record, a flat listing that failed included,
\* and never when it recovered one; when it runs its result has at most 50
\* entries, malformed lines being skipped.
C38_AlternativeIffNoRecord ==
    \A k \in 1 .. 2 :
        listings[k].done =>
            /\ AlternativeTried(k)
                 <=> (flat_output.status # "exit_ok"
                        \/ WellFormed(flat_output.lines, FALSE) = {})
            /\ AlternativeTried(k) => AlternativeResult(k)

\* C38 (amended): the alternative listing is attempted exactly when the flat
\* listing exited successfully and recovered no record; when it runs its
\* result has at most 50 entries, malformed lines being skipped.
C38_AlternativeIffFlatEmpty ==
    \A k \in 1 .. 2 :
        listings[k].done =>
            /\ AlternativeTried(k)
                 <=> (flat_output.status = "exit_ok"
                        /\ WellFormed(flat_output.lines, FALSE) = {})
            /\ AlternativeTried(k) => AlternativeResult(k)

\* The flat listing printed a malformed line only and exited successfully;
\* the alternative listing printed a malformed line and 51 records, of which
\* the enumeration returned the first 50.
C38_Witness ==
    /\ listings[1].done
    /\ flat_output = [status |-> "exit_ok", lines |-> <<GarbageLine>>]
    /\ alt_output.lines = LongListing
    /\ AlternativeTried(1)
    /\ Len(listings[1].result.videos) = ALT_LIMIT

(***************************************************************************)
(* Properties of batch requests side by side                               *)
(***************************************************************************)
\* the archive a request that has built one gave to its client
ArchiveOf(r) == {a \in archives : a.name = sess[r].zip_name}

AdmittedInWindow(client_ip, t) ==
    {i \in 1 .. Len(admitted) :
        /\ admitted[i].ip = client_ip
        /\ t <= admitted[i].at /\ admitted[i].at < t + WINDOW_SECONDS}

\* C39 (as stated): at most 10 requests of one client are admitted in any
\* 60-second window; the next one is answered with 429.
C39_AtMostTenPerWindow ==
    \A client_ip \in RateClients : \A t \in 0 .. MaxClock :
        Cardinality(AdmittedInWindow(client_ip, t)) <= MAX_REQUESTS

(***************************************************************************)
(* Properties of the reCAPTCHA check                                       *)
(***************************************************************************)
\* C40: with reCAPTCHA enabled, a request to any of the metadata, streaming
\* and batch-creation handlers that carries no token, or a token that fails
\* verification, never gets past the check: no service is constructed and no
\* subprocess is spawned for it, and its response is BadRequest. With
\* reCAPTCHA disabled no request is turned away by the check.
C40_NoTokenNoWork ==
    /\ (gate.pc # "idle" /\ recaptcha_enabled /\ gate.token # "good")
         => /\ gate.pc \in {"verify", "done"}
            /\ ~gate.service
            /\ gate.spawned = <<>>
            /\ gate.pc = "done" => gate.result = "BadRequest"
    /\ (gate.pc # "idle" /\ ~recaptcha_enabled)
         => /\ gate.result # "BadRequest"
            /\ gate.pc = "done" => gate.result \in {"Internal", "called"}

\* With reCAPTCHA enabled, a batch-creation request without a token has been
\* answered.
C40_Witness ==
    /\ recaptcha_enabled
    /\ gate.handler = "download_selected_profile_videos"
    /\ gate.token = "absent"
    /\ gate.pc = "done"
    /\ gate.result = "BadRequest"

=============================================================================
